---- MODULE Spec2Model ----
(***************************************************************************)
(* Model of the weekly-calendar slot discovery / selection driver          *)
(* (backend/app/slot_extractor.py), the calendar navigation it relies on   *)
(* (backend/app/calendar_navigator.py), the mid-traversal session check    *)
(* (backend/app/login_handler.py) and the gate of the booking flow         *)
(* (backend/app/booking_handler.py, backend/app/search_handler.py).        *)
(*                                                                         *)
(* The web site is the environment: which cells a week shows, whether a    *)
(* click toggles the cell, what the selection verifier sees, whether a     *)
(* wait times out, whether navigation silently drops a selection and       *)
(* whether the session expires are nondeterministic choices.               *)
(***************************************************************************)
EXTENDS Integers, Sequences, FiniteSets, TLC

\* ---------------------------------------------------------------- bounds
NumCells == 2          \* cells of the facility's calendar that the model tracks
MaxSlots == 2          \* longest slot list handed to the booking entry point
MaxTableCells == 2     \* most td[id] cells of a week table handed to is_on_week_one

\* ------------------------------------------------------ program constants
\* A traversal that allows one week too many.
MaxWeeksOffByOne == 6 + 1

max_weeks == 6         \* slot_extractor.py: max_weeks = 6

Cells == 1..NumCells
Weeks == 0..(max_weeks - 1)
\* Weeks in which the tracked cells may lie (week 3 and week 5).
CellWeeks == {2, 4}
\* Index of the last week the site lets the user reach with "next week".
LastWeekChoices == {3, max_weeks - 1}

VARIABLES
    \* ---- the site (environment)
    cal,            \* cell -> [week, kind, known]: what the facility's calendar holds
    lastWeek,       \* "next week" is disabled on this week
    selected,       \* cell -> BOOLEAN: the site's selection state (icon absent)
    dispWeek,       \* the week the calendar widget displays
    page,           \* "calendar" | "timeout" | "home": what the page shows
    \* ---- the caller
    browser_automation,   \* TRUE iff a browser_automation instance was passed
    \* ---- extract_slots_from_weekly_calendar
    pc, phase, week_num,
    slots, slots_clicked_flag, all_clicked_slot_ids,
    \* ---- extract_slots_from_current_week
    cellIdx, week_slots, slot_clicked_flag, clicked_cell_ids,
    \* ---- observation of the run (history)
    ev,             \* what the last step did
    visits,         \* sequence of [phase, week, ok]: week extractions so far
    hist,           \* cumulative facts about the run
    \* ---- a component called on its own
    call            \* the frame of the navigator, login or verifier call in progress

vars == <<cal, lastWeek, selected, dispWeek, page, browser_automation,
          pc, phase, week_num, slots, slots_clicked_flag, all_clicked_slot_ids,
          cellIdx, week_slots, slot_clicked_flag, clicked_cell_ids,
          ev, visits, hist, call>>

siteVars == <<cal, lastWeek, browser_automation>>
weekLocals == <<cellIdx, week_slots, slot_clicked_flag, clicked_cell_ids>>

\* --------------------------------------------------------------- the site
\* kind: "unavailable" (no td.available class), "noSetReserv" (available, but
\* its onclick is no setReserv call the decoder recognises), "slot" (a bookable
\* cell).
CellKinds == {"unavailable", "noSetReserv", "slot"}

CellConfigs ==
    {[week |-> w, kind |-> k, known |-> kn] :
        w \in CellWeeks, k \in CellKinds, kn \in BOOLEAN}

\* A calendar: cells in DOM order (week by week); the persistence layer can
\* only know cells that are slots.
Calendars ==
    {c \in [Cells -> CellConfigs] :
        /\ \A i \in Cells : c[i].kind # "slot" => ~c[i].known
        /\ \A i, j \in Cells : i < j => c[i].week <= c[j].week}

\* The times the site encodes for a cell (HHMM integers).
StartOf(c) == 700 + 200 * c
EndOf(c) == StartOf(c) + 200

\* The cell's onclick attribute, as the argument list of its handler call:
\* setReserv(this, "bcd", "icd", useYmd, start, end, n).
\* The driver tells bookable cells by the CSS class alone: a cell without the
\* class may carry the same handler.
OnClick(c) ==
    IF cal[c].kind = "noSetReserv"
    THEN \* no handler at all, or a setReserv call with too few arguments
         IF c = 1 THEN [fn |-> "setReserv", args |-> <<"this", "1020">>]
         ELSE [fn |-> "none", args |-> <<>>]
    ELSE [fn |-> "setReserv",
          args |-> <<"this", "1020", "10200020", 20260100 + c, StartOf(c), EndOf(c), 0>>]

\* Every cell of the week, whatever its class.
RECURSIVE AllCellsOfWeek(_, _)
AllCellsOfWeek(w, c) ==
    IF c > NumCells THEN <<>>
    ELSE (IF cal[c].week = w THEN <<c>> ELSE <<>>) \o AllCellsOfWeek(w, c + 1)

\* td.available cells of the displayed week, in document order.
RECURSIVE CellsOfWeek(_, _)
CellsOfWeek(w, c) ==
    IF c > NumCells THEN <<>>
    ELSE (IF cal[c].week = w /\ cal[c].kind # "unavailable" THEN <<c>> ELSE <<>>)
         \o CellsOfWeek(w, c + 1)

available_cells == CellsOfWeek(dispWeek, 1)

NoEvent == [kind |-> "none"]
NoCall == [op |-> "none"]

\* Nothing has happened yet: no click call issued, no attempt recorded as
\* clicked, no login made, no session-timeout page met, no week navigation
\* made in either phase, no Phase 2 visit has left a recorded cell without its
\* restoring click because a page operation failed.
NoHistory ==
    [clickIssued |-> FALSE, clicked |-> FALSE, loginCalls |-> 0, timeoutSeen |-> FALSE,
     navigations |-> <<0, 0>>, repairCut |-> FALSE]

Init ==
    /\ cal \in Calendars
    /\ lastWeek \in LastWeekChoices
    /\ selected \in [Cells -> BOOLEAN]
    /\ \A c \in Cells : cal[c].kind # "slot" => ~selected[c]
    /\ dispWeek \in {0, lastWeek}
    /\ page = "calendar"
    /\ browser_automation \in BOOLEAN
    /\ pc = "start"
    /\ phase = 1
    /\ week_num = 0
    /\ slots = <<>>
    /\ slots_clicked_flag = 0
    /\ all_clicked_slot_ids = <<>>
    /\ cellIdx = 1
    /\ week_slots = <<>>
    /\ slot_clicked_flag = 0
    /\ clicked_cell_ids = <<>>
    /\ ev = NoEvent
    /\ visits = <<>>
    /\ hist = NoHistory
    /\ call = NoCall

\* ------------------------------------------- extract_slots_from_current_week
SeqToSet(s) == {s[i] : i \in DOMAIN s}

\* A decoder that takes every setReserv call for a slot, whatever its arguments.
ParseSetReservLenient(onclick) ==
    IF onclick.fn = "setReserv"
    THEN [match |-> TRUE, bcd |-> "", icd |-> "", start_time |-> 0, end_time |-> 0]
    ELSE [match |-> FALSE]

\* A decoder that is off by one group: start and end read from groups 3 and 4.
ParseSetReservShifted(onclick) ==
    IF onclick.fn = "setReserv" /\ Len(onclick.args) >= 7
    THEN [match |-> TRUE, bcd |-> onclick.args[2], icd |-> onclick.args[3],
          start_time |-> onclick.args[4], end_time |-> onclick.args[5]]
    ELSE [match |-> FALSE]

\* re.search(r'setReserv\([^,]+,\s*"(\d+)"\s*,\s*"(\d+)"\s*,\s*(\d+)\s*,\s*(\d+)\s*,\s*(\d+)\s*,\s*(\d+)', onclick):
\* group 1 and 2 are the 2nd and 3rd argument, group 4 and 5 the 5th and 6th.
ParseSetReserv(onclick) ==
    IF onclick.fn = "setReserv" /\ Len(onclick.args) >= 7
    THEN [match |-> TRUE, bcd |-> onclick.args[2], icd |-> onclick.args[3],
          start_time |-> onclick.args[5], end_time |-> onclick.args[6]]
    ELSE [match |-> FALSE]

\* The slot dictionary built for a cell.
SlotDict(c, m) ==
    [cell_id |-> c, bcd |-> m.bcd, icd |-> m.icd,
     start_time |-> m.start_time, end_time |-> m.end_time]

\* What one click call can do: take effect (the site toggles the cell) or not,
\* and return or raise.
ClickOutcomes == {"toggle", "noeffect", "raise", "toggleRaise"}
Returned(o) == o \in {"toggle", "noeffect"}
Toggles(o) == o \in {"toggle", "toggleRaise"}

\* What slot_exists_checker can answer for a cell: the persistence layer's
\* answer, or an exception.  (No checker at all behaves as a checker that
\* answers False for every cell.)
CheckerAnswers(c) == {IF cal[c].known THEN "true" ELSE "false", "raise"}

\* A click method that runs whatever the verifier said of the earlier ones.
ClickMethodUnconditional(st, o, v) ==
    [sel |-> IF Toggles(o) THEN ~st.sel ELSE st.sel,
     attempted |-> st.attempted \/ Returned(o),
     success |-> st.success \/ (Returned(o) /\ v),
     issued |-> st.issued + 1,
     onSelected |-> st.onSelected \/ st.sel]

\* One click method of the escalation (Method 1, 2, 3): skipped when an earlier
\* method was verified; click_attempted is set only when the call returns; the
\* verifier's answer v decides selection_success.
ClickMethod(st, o, v) ==
    IF st.success THEN st
    ELSE [sel |-> IF Toggles(o) THEN ~st.sel ELSE st.sel,
          attempted |-> st.attempted \/ Returned(o),
          success |-> Returned(o) /\ v,
          issued |-> st.issued + 1,
          onSelected |-> st.onSelected \/ st.sel]

\* Environment of one cell visit: what the page operations of the loop body
\* do.  Choices the visit never reads are left at their default.
DefaultEnv ==
    [cellErr |-> FALSE, chk |-> "false", pre |-> FALSE,
     o1 |-> "raise", v1 |-> FALSE, o2 |-> "raise", v2 |-> FALSE,
     o3 |-> "raise", v3 |-> FALSE, svgOk |-> TRUE,
     spont |-> "never", dbl |-> TRUE, fin |-> TRUE, o |-> "raise"]

\* The click block's environment: each method's outcome and the verifier's
\* answer after it (read only when the call returned), for the methods that run.
MethodEnvs ==
    {e \in [o1 : ClickOutcomes, v1 : BOOLEAN, o2 : ClickOutcomes, v2 : BOOLEAN,
            o3 : ClickOutcomes, v3 : BOOLEAN, svgOk : BOOLEAN] :
        /\ ~Returned(e.o1) => ~e.v1
        /\ ~Returned(e.o2) => ~e.v2
        /\ ~Returned(e.o3) => ~e.v3
        /\ e.v1 => e.o2 = "raise" /\ e.o3 = "raise"
        /\ e.v2 => e.o3 = "raise"}

ClickEnvs ==
    {[DefaultEnv EXCEPT !.pre = TRUE]}
    \cup {[DefaultEnv EXCEPT !.o1 = e.o1, !.v1 = e.v1, !.o2 = e.o2, !.v2 = e.v2,
                             !.o3 = e.o3, !.v3 = e.v3, !.svgOk = e.svgOk] :
            e \in MethodEnvs}

\* The restore branch's environment.
RestoreEnvs ==
    {[DefaultEnv EXCEPT !.dbl = FALSE, !.spont = sp] : sp \in {"never", "beforeFinal"}}
    \cup {[DefaultEnv EXCEPT !.pre = TRUE, !.spont = sp] :
            sp \in {"never", "beforeDouble", "beforeFinal"}}
    \cup {[DefaultEnv EXCEPT !.fin = FALSE, !.spont = sp] :
            sp \in {"never", "beforeDouble", "beforeFinal"}}
    \cup {[DefaultEnv EXCEPT !.spont = sp] : sp \in {"beforeDouble", "beforeFinal"}}
    \cup {[DefaultEnv EXCEPT !.o = o, !.svgOk = ok] :
            o \in ClickOutcomes, ok \in BOOLEAN}

Skip(c, why) ==
    [sel |-> selected[c], flag |-> slot_clicked_flag, ids |-> <<>>, slot |-> <<>>,
     out |-> why, issued |-> 0, onSelected |-> FALSE, checker |-> "notcalled"]

\* The click block of Phase 1 (click_slots = True) for an eligible cell.
ClickBlock(c, m, e) ==
    IF e.pre
    THEN \* scroll_into_view_if_needed / page.evaluate raised: the outer handler
         \* sets the flag and records the id anyway.
         [sel |-> selected[c], flag |-> 1, ids |-> <<c>>, slot |-> <<SlotDict(c, m)>>,
          out |-> "error", issued |-> 0, onSelected |-> FALSE, checker |-> e.chk]
    ELSE LET s0 == [sel |-> selected[c], attempted |-> FALSE, success |-> FALSE,
                    issued |-> 0, onSelected |-> FALSE]
             s1 == ClickMethod(s0, e.o1, e.v1)
             s2 == ClickMethod(s1, e.o2, e.v2)
             s3 == ClickMethod(s2, e.o3, e.v3)
             svg_verification == e.svgOk /\ s3.sel
             final_selection_success == svg_verification \/ s3.success
             clicked == s3.attempted \/ final_selection_success
         IN [sel |-> s3.sel,
             flag |-> IF clicked THEN 1 ELSE slot_clicked_flag,
             ids |-> IF clicked THEN <<c>> ELSE <<>>,
             slot |-> <<SlotDict(c, m)>>,
             out |-> IF final_selection_success THEN "verified"
                     ELSE IF s3.attempted THEN "unverified" ELSE "failed",
             issued |-> s3.issued, onSelected |-> s3.onSelected, checker |-> e.chk]

\* A loop body that does not look at the icon before it clicks.
Phase1VisitWithoutIconCheck(c, e) ==
    IF e.cellErr THEN Skip(c, "cell_error")
    ELSE LET m == ParseSetReserv(OnClick(c)) IN
         IF ~m.match THEN Skip(c, "no_slot")
         ELSE IF e.chk = "true" THEN [Skip(c, "known") EXCEPT !.checker = "true"]
         ELSE ClickBlock(c, m, e)

\* The loop body for one available cell with click_slots = True.
Phase1Visit(c, e) ==
    IF e.cellErr THEN Skip(c, "cell_error")
    ELSE IF selected[c] THEN Skip(c, "already_selected")
    ELSE LET m == ParseSetReserv(OnClick(c)) IN
         IF ~m.match THEN Skip(c, "no_slot")
         ELSE IF e.chk = "true" THEN [Skip(c, "known") EXCEPT !.checker = "true"]
         ELSE ClickBlock(c, m, e)

\* A restore branch that clicks again when its verification fails.
RestoreWithRetry(c, e) ==
    LET selD == e.spont = "beforeDouble"
        selF == selD \/ e.spont = "beforeFinal"
        none == [sel |-> selF, ias |-> FALSE, ids |-> <<>>, flagSet |-> FALSE,
                 issued |-> 0, restored |-> FALSE]
    IN IF ~e.dbl THEN none
       ELSE IF e.pre THEN [none EXCEPT !.ias = selD]
       ELSE IF ~e.fin THEN [none EXCEPT !.ias = selD]
       ELSE IF selF THEN [none EXCEPT !.ias = TRUE]
       ELSE LET after == Toggles(e.o)
                ok == Returned(e.o) /\ e.svgOk /\ after
            IN [sel |-> IF ok THEN after ELSE ~after, ias |-> ok,
                ids |-> IF ok THEN <<c>> ELSE <<>>, flagSet |-> ok,
                issued |-> IF ok THEN 1 ELSE 2, restored |-> ok]

\* The restore branch of Phase 2: the cell was clicked in Phase 1 and its icon
\* is back.  Returns the cell's selection state, is_already_selected, the ids
\* appended, whether the flag is set and the number of click calls issued.
Restore(c, e) ==
    LET selD == e.spont = "beforeDouble"
        selF == selD \/ e.spont = "beforeFinal"
        none == [sel |-> selF, ias |-> FALSE, ids |-> <<>>, flagSet |-> FALSE,
                 issued |-> 0, restored |-> FALSE]
    IN IF ~e.dbl THEN none                            \* cell_double_check is None
       ELSE IF e.pre THEN [none EXCEPT !.ias = selD]  \* scroll raised
       ELSE IF ~e.fin THEN [none EXCEPT !.ias = selD] \* final_cell_check is None
       ELSE IF selF THEN [none EXCEPT !.ias = TRUE]   \* became selected: no click
       ELSE LET after == Toggles(e.o)
                ok == Returned(e.o) /\ e.svgOk /\ after
            IN [sel |-> after, ias |-> ok,
                ids |-> IF ok THEN <<c>> ELSE <<>>, flagSet |-> ok,
                issued |-> 1, restored |-> ok]

\* A Phase 2 loop body that re-clicks every cell whose icon is present, recorded
\* in Phase 1 or not.
Phase2VisitRestoringAll(c, e, previously_clicked_ids) ==
    IF e.cellErr THEN Skip(c, "cell_error")
    ELSE LET prev == c \in SeqToSet(previously_clicked_ids)
             r == IF ~selected[c] THEN Restore(c, e)
                  ELSE [sel |-> selected[c], ias |-> selected[c], ids |-> <<>>,
                        flagSet |-> FALSE, issued |-> 0, restored |-> FALSE]
             m == ParseSetReserv(OnClick(c))
         IN [sel |-> r.sel,
             flag |-> IF r.flagSet THEN 1 ELSE slot_clicked_flag,
             ids |-> r.ids \o (IF r.ias /\ prev THEN <<c>> ELSE <<>>),
             slot |-> IF m.match /\ e.chk # "true" THEN <<SlotDict(c, m)>> ELSE <<>>,
             out |-> IF r.restored THEN "restored"
                     ELSE IF r.issued > 0 THEN "restore_failed"
                     ELSE "extract_only",
             issued |-> r.issued, onSelected |-> FALSE,
             checker |-> IF m.match THEN e.chk ELSE "notcalled"]

\* The loop body for one available cell with click_slots = False.
Phase2Visit(c, e, previously_clicked_ids) ==
    IF e.cellErr THEN Skip(c, "cell_error")
    ELSE LET prev == c \in SeqToSet(previously_clicked_ids)
             r == IF prev /\ ~selected[c] THEN Restore(c, e)
                  ELSE [sel |-> selected[c], ias |-> selected[c], ids |-> <<>>,
                        flagSet |-> FALSE, issued |-> 0, restored |-> FALSE]
             ids == r.ids \o (IF r.ias /\ prev THEN <<c>> ELSE <<>>)
             m == ParseSetReserv(OnClick(c))
             called == m.match
             extracted == m.match /\ e.chk # "true"
         IN [sel |-> r.sel,
             flag |-> IF r.flagSet THEN 1 ELSE slot_clicked_flag,
             ids |-> ids,
             slot |-> IF extracted THEN <<SlotDict(c, m)>> ELSE <<>>,
             out |-> IF r.restored THEN "restored"
                     ELSE IF r.issued > 0 THEN "restore_failed"
                     ELSE IF prev /\ ~selected[c] THEN "restore_skipped"
                     ELSE "extract_only",
             issued |-> r.issued, onSelected |-> FALSE,
             checker |-> IF called THEN e.chk ELSE "notcalled"]

\* The environments a visit of cell c can meet.
Eligible(c) == ParseSetReserv(OnClick(c)).match

VisitEnvs(c) ==
    {[DefaultEnv EXCEPT !.cellErr = TRUE]}
    \cup (IF phase = 1
          THEN IF selected[c] \/ ~Eligible(c) THEN {DefaultEnv}
               ELSE {[e EXCEPT !.chk = k] :
                        e \in ClickEnvs, k \in CheckerAnswers(c) \ {"true"}}
                    \cup {[DefaultEnv EXCEPT !.chk = k] :
                            k \in CheckerAnswers(c) \cap {"true"}}
          ELSE LET ks == IF Eligible(c) THEN CheckerAnswers(c) ELSE {"false"}
                   es == IF c \in SeqToSet(all_clicked_slot_ids) /\ ~selected[c]
                         THEN RestoreEnvs ELSE {DefaultEnv}
               IN {[e EXCEPT !.chk = k] : e \in es, k \in ks})

\* --------------------------------------- extract_slots_from_weekly_calendar
\* A traversal whose exceptions reach the caller.
NoOuterHandler == "raised"

\* Lines 626-631: the handler around the whole traversal logs the exception;
\* the call then returns (slots, slots_clicked_flag) like a completed one.
OuterHandler == "done"

\* Lines 471-509: wait for the #weekly container (a timeout ends the call in
\* the outer handler), then make sure the calendar shows week 1; when
\* navigate_back_to_week_one fails the traversal goes on from the week shown.
StartTraversal ==
    /\ pc = "start"
    /\ \E weeklyVisible \in BOOLEAN, backOk \in BOOLEAN :
         /\ (dispWeek = 0 => backOk)
         /\ IF weeklyVisible
            THEN /\ pc' = "week"
                 /\ dispWeek' = IF backOk THEN 0 ELSE dispWeek
            ELSE /\ pc' = OuterHandler
                 /\ UNCHANGED dispWeek
         /\ ev' = [kind |-> "start", ok |-> weeklyVisible]
    /\ UNCHANGED <<siteVars, call, selected, page, phase, week_num, slots,
                   slots_clicked_flag, all_clicked_slot_ids, weekLocals,
                   visits, hist>>

\* What extract_slots_from_current_week returns when the week table is missing
\* or empty (line 102), and when it reaches its end (line 449).
TableMissingReturn == <<week_slots, slot_clicked_flag>>
WeekReturn == <<week_slots, slot_clicked_flag, clicked_cell_ids>>

\* week_slots, week_flag, week_clicked_ids = await ...: three targets.
Unpackable(ret) == Len(ret) = 3

\* Lines 47-113 of extract_slots_from_current_week: reset the locals, wait for
\* the week table.  A missing table returns at once; the caller's unpacking of
\* that return value decides whether the traversal goes on.
ExtractWeekBegin ==
    /\ pc = "week"
    /\ \E table_found \in BOOLEAN :
         /\ (page # "calendar" => ~table_found)
         /\ week_slots' = <<>>
         /\ slot_clicked_flag' = 0
         /\ clicked_cell_ids' = <<>>
         /\ cellIdx' = 1
         /\ visits' = Append(visits, [phase |-> phase, week |-> dispWeek,
                                      ok |-> table_found])
         /\ ev' = [kind |-> "week", phase |-> phase, week |-> dispWeek,
                   ok |-> table_found]
         /\ pc' = IF table_found THEN "cell"
                  ELSE IF Unpackable(TableMissingReturn') THEN "ret"
                  ELSE OuterHandler    \* ValueError, caught at line 626
    /\ UNCHANGED <<siteVars, call, selected, dispWeek, page, phase, week_num, slots,
                   slots_clicked_flag, all_clicked_slot_ids, hist>>

\* Every one of the n click calls a visit issued took effect on the site.
ClicksToggled(e, n) ==
    IF phase = 1
    THEN /\ (n >= 1 => Toggles(e.o1))
         /\ (n >= 2 => Toggles(e.o2))
         /\ (n >= 3 => Toggles(e.o3))
    ELSE n >= 1 => Toggles(e.o)

\* A Phase 2 visit of a recorded cell whose icon is present ends before the
\* restoring click because a page operation fails: the id cannot be read
\* (line 118), a re-query finds no cell (lines 145, 159), or the scroll raises.
RepairCut(c, e) ==
    /\ phase = 2
    /\ c \in SeqToSet(all_clicked_slot_ids)
    /\ ~selected[c]
    /\ (e.cellErr \/ ~e.dbl \/ e.pre \/ ~e.fin)

\* Lines 116-443: the loop body for the next available cell of the week.
ProcessCell ==
    /\ pc = "cell"
    /\ cellIdx <= Len(available_cells)
    /\ LET c == available_cells[cellIdx] IN
       \E e \in VisitEnvs(c) :
         LET r == IF phase = 1 THEN Phase1Visit(c, e)
                  ELSE Phase2Visit(c, e, all_clicked_slot_ids)
         IN /\ selected' = [selected EXCEPT ![c] = r.sel]
            /\ week_slots' = week_slots \o r.slot
            /\ slot_clicked_flag' = r.flag
            /\ clicked_cell_ids' = clicked_cell_ids \o r.ids
            /\ cellIdx' = cellIdx + 1
            /\ ev' = [kind |-> "cell", phase |-> phase, cell |-> c,
                      iconAbsent |-> selected[c],
                      prev |-> c \in SeqToSet(all_clicked_slot_ids),
                      out |-> r.out, issued |-> r.issued,
                      onSelected |-> r.onSelected, checker |-> r.checker,
                      recorded |-> r.ids # <<>>, flagSet |-> r.flag = 1,
                      guards |-> e.dbl /\ ~e.pre /\ e.fin /\ e.spont = "never",
                      iconGoneAfter |-> Returned(e.o) /\ Toggles(e.o) /\ e.svgOk,
                      toggledAll |-> ClicksToggled(e, r.issued)]
            /\ hist' = [hist EXCEPT
                          !.clickIssued = @ \/ r.issued > 0,
                          !.clicked = @ \/ r.out \in {"verified", "unverified",
                                                      "restored", "restore_failed"},
                          !.repairCut = @ \/ RepairCut(c, e)]
    /\ UNCHANGED <<siteVars, call, dispWeek, page, pc, phase, week_num, slots,
                   slots_clicked_flag, all_clicked_slot_ids, visits>>

\* ------------------------------------------------ session check, navigation
\* LoginHandler.is_logged_in: a session-timeout page is "not logged in"; the
\* results page and the home page of a live session carry the logout marker.
IsLoggedIn(p) == p \in {"calendar", "home"}

\* browser_automation.check_and_renew_login(): one login(), after which
\* session.main_page is the page login() left on the home screen.
CheckAndRenewLogin == [main_page |-> "home", logins |-> 1]

\* Lines 530-544 / 589-602: the session check made before a week navigation.
SessionCheck(p) ==
    IF browser_automation /\ ~IsLoggedIn(p)
    THEN [page |-> CheckAndRenewLogin.main_page, logins |-> CheckAndRenewLogin.logins]
    ELSE [page |-> p, logins |-> 0]

\* CalendarNavigator.navigate_to_next_week / navigate_to_previous_week on page
\* p, as a traversal meets them: no control on a page without the calendar, a
\* disabled control at the boundary; otherwise one click, after which the next
\* table appears (True) or the site answers with its session-timeout page and
\* the wait for the table fails (False).  The waits after a click are taken to
\* return as long as the calendar is there; NextWeekSelector and
\* PrevWeekSelector below model the calls selector by selector without that
\* assumption.
NavOutcomes(p, atBoundary) ==
    IF p # "calendar" \/ atBoundary
    THEN {[success |-> FALSE, moved |-> FALSE, page |-> p]}
    ELSE {[success |-> TRUE, moved |-> TRUE, page |-> p],
          [success |-> FALSE, moved |-> FALSE, page |-> "timeout"]}

\* A navigator that clicks "next week" without looking at its disabled state.
NextWeekIgnoringDisabled(p) == NavOutcomes(p, FALSE)

navigate_to_next_week(p) == NavOutcomes(p, dispWeek = lastWeek)
navigate_to_previous_week(p) == NavOutcomes(p, dispWeek = 0)

\* The site can silently drop selections when the week changes.
DropSets == SUBSET {c \in Cells : selected[c]}
AfterDrop(D) == [c \in Cells |-> selected[c] /\ c \notin D]

\* The page the session check reads: the site may have replaced the calendar
\* by its session-timeout page in the meantime.
PagesNow == IF page = "calendar" THEN {"calendar", "timeout"} ELSE {page}

WeekLoopEnded == pc = "ret" \/ (pc = "cell" /\ cellIdx > Len(available_cells))

\* Lines 516-556: the rest of one Phase 1 iteration, then the loop's exit into
\* Phase 2 (lines 562-570).
Phase1Advance ==
    /\ phase = 1
    /\ WeekLoopEnded
    /\ slots' = slots \o WeekReturn[1]
    /\ all_clicked_slot_ids' = all_clicked_slot_ids \o WeekReturn[3]
    /\ slots_clicked_flag' = IF WeekReturn[2] = 1 THEN 1 ELSE slots_clicked_flag
    /\ pc' = "week"
    /\ IF week_num < max_weeks - 1
       THEN \E p0 \in PagesNow :
              LET sc == SessionCheck(p0) IN
              \E n \in navigate_to_next_week(sc.page), D \in DropSets :
                /\ (~n.moved => D = {})
                /\ page' = n.page
                /\ dispWeek' = IF n.moved THEN dispWeek + 1 ELSE dispWeek
                /\ selected' = AfterDrop(D)
                /\ IF n.success
                   THEN /\ week_num' = week_num + 1
                        /\ phase' = 1
                   ELSE /\ week_num' = max_weeks - 1
                        /\ phase' = 2
                /\ hist' = [hist EXCEPT
                              !.loginCalls = @ + sc.logins,
                              !.timeoutSeen = @ \/ p0 = "timeout" \/ n.page = "timeout",
                              !.navigations[1] = @ + 1]
                /\ ev' = [kind |-> "nav", phase |-> 1, success |-> n.success,
                          logins |-> sc.logins, pageChecked |-> p0]
       ELSE /\ week_num' = max_weeks - 1
            /\ phase' = 2
            /\ ev' = [kind |-> "phase1end"]
            /\ UNCHANGED <<page, dispWeek, selected, hist>>
    /\ UNCHANGED <<siteVars, call, weekLocals, visits>>

\* Lines 576-614: the rest of one Phase 2 iteration, and the end of the call.
Phase2Advance ==
    /\ phase = 2
    /\ WeekLoopEnded
    /\ slots' = slots \o WeekReturn[1]
    /\ slots_clicked_flag' = IF WeekReturn[2] = 1 THEN 1 ELSE slots_clicked_flag
    /\ IF week_num > 0
       THEN \E p0 \in PagesNow :
              LET sc == SessionCheck(p0) IN
              \E n \in navigate_to_previous_week(sc.page), D \in DropSets :
                /\ (~n.moved => D = {})
                /\ page' = n.page
                /\ dispWeek' = IF n.moved THEN dispWeek - 1 ELSE dispWeek
                /\ selected' = AfterDrop(D)
                /\ IF n.success
                   THEN /\ week_num' = week_num - 1
                        /\ pc' = "week"
                   ELSE /\ week_num' = week_num
                        /\ pc' = "done"
                /\ hist' = [hist EXCEPT
                              !.loginCalls = @ + sc.logins,
                              !.timeoutSeen = @ \/ p0 = "timeout" \/ n.page = "timeout",
                              !.navigations[2] = @ + 1]
                /\ ev' = [kind |-> "nav", phase |-> 2, success |-> n.success,
                          logins |-> sc.logins, pageChecked |-> p0]
       ELSE /\ pc' = "done"
            /\ ev' = [kind |-> "phase2end"]
            /\ UNCHANGED <<page, dispWeek, selected, hist, week_num>>
    /\ UNCHANGED <<siteVars, call, phase, all_clicked_slot_ids, weekLocals, visits>>

\* ------------------------------------------------------------ booking gate
\* BookingHandler.click_reservation_button_if_slots_found(page, flag, slots):
\* returns before looking for the control unless the flag is 1; otherwise it
\* clicks the control when it is found and not disabled.  The slot list is only
\* logged.
\* A gate that looks at the slot list instead of the flag.
ClickReservationButtonGatedOnSlots(flagArg, slotsArg, button) ==
    IF slotsArg = <<>> THEN [looked |-> FALSE, clicked |-> FALSE, result |-> FALSE]
    ELSE IF button = "enabled" THEN [looked |-> TRUE, clicked |-> TRUE, result |-> TRUE]
    ELSE [looked |-> TRUE, clicked |-> FALSE, result |-> FALSE]

ClickReservationButtonIfSlotsFound(flagArg, slotsArg, button) ==
    IF flagArg # 1 THEN [looked |-> FALSE, clicked |-> FALSE, result |-> FALSE]
    ELSE IF button = "enabled" THEN [looked |-> TRUE, clicked |-> TRUE, result |-> TRUE]
    ELSE [looked |-> TRUE, clicked |-> FALSE, result |-> FALSE]

ButtonStates == {"enabled", "disabled", "absent"}

\* search_handler.py lines 220-244: after the traversal, the booking flow is
\* entered when int(flag) == 1 and click_reserve_button is set.
\* Lines 260-273: the handler of search_availability_via_form.
SearchFailed == [success |-> FALSE, slots |-> <<>>, slots_clicked_flag |-> 0]

\* Lines 252-258: the result of a search that reached its end.
SearchCompleted(slotsFound, flag) ==
    [success |-> TRUE, slots |-> slotsFound, slots_clicked_flag |-> flag]

\* Nothing after the traversal raises into the handler: the booking entry
\* point catches its own exceptions (booking_handler.py line 129), and the
\* search's BookingHandler() (line 31) has the network capture of
\* booking_handler.py lines 43-46 switched off.
SearchAvailabilityViaForm ==
    /\ pc = "done"
    /\ \E click_reserve_button \in BOOLEAN, button \in ButtonStates :
         LET flag_value == IF slots_clicked_flag # 0 THEN slots_clicked_flag ELSE 0
             called == flag_value = 1 /\ click_reserve_button
             r == IF called
                  THEN ClickReservationButtonIfSlotsFound(slots_clicked_flag, slots, button)
                  ELSE [looked |-> FALSE, clicked |-> FALSE, result |-> FALSE]
         IN ev' = [kind |-> "book", called |-> called, flag |-> slots_clicked_flag,
                   nslots |-> Len(slots), button |-> button,
                   looked |-> r.looked, clicked |-> r.clicked,
                   ret |-> SearchCompleted(slots, slots_clicked_flag)]
    /\ pc' = "returned"
    /\ UNCHANGED <<siteVars, call, selected, dispWeek, page, phase, week_num, slots,
                   slots_clicked_flag, all_clicked_slot_ids, weekLocals, visits, hist>>

\* A direct call of the booking entry point (monitoring_service.py line 722,
\* test_network_capture.py line 182): the caller passes its own flag and its own
\* slot list, which need not be the traversal's.
FlagArgs == {0, 1}

SlotOf(c) == SlotDict(c, ParseSetReserv(OnClick(c)))
SlotLists ==
    UNION {[1..n -> {SlotOf(c) : c \in Cells}] : n \in 0..MaxSlots}

ClickReservationDirect ==
    /\ pc = "done"
    /\ \E flagArg \in FlagArgs, slotsArg \in {<<>>, slots}, button \in ButtonStates :
         LET r == ClickReservationButtonIfSlotsFound(flagArg, slotsArg, button)
         IN ev' = [kind |-> "book", called |-> TRUE, flag |-> flagArg,
                   nslots |-> Len(slotsArg), button |-> button,
                   looked |-> r.looked, clicked |-> r.clicked]
    /\ pc' = "returned"
    /\ UNCHANGED <<siteVars, call, selected, dispWeek, page, phase, week_num, slots,
                   slots_clicked_flag, all_clicked_slot_ids, weekLocals, visits, hist>>

Next ==
    \/ StartTraversal
    \/ ExtractWeekBegin
    \/ ProcessCell
    \/ Phase1Advance
    \/ Phase2Advance

Spec == Init /\ [][Next]_vars

\* search_handler.py lines 73-218: a search that ends before the traversal is
\* called: an operation on the form or the results page raises, or the results
\* checker finds nothing to traverse.
SearchEndsBeforeTraversal ==
    /\ pc = "start"
    /\ \E raises \in BOOLEAN :
         ev' = [kind |-> "search", has_results |-> FALSE,
                ret |-> IF raises THEN SearchFailed ELSE SearchCompleted(<<>>, 0)]
    /\ pc' = "returned"
    /\ UNCHANGED <<siteVars, call, selected, dispWeek, page, phase, week_num, slots,
                   slots_clicked_flag, all_clicked_slot_ids, weekLocals, visits, hist>>

\* A search from its call to its return, with the traversal it makes (line
\* 220: without a browser_automation instance).
EntryInit == Init /\ browser_automation = FALSE

EntryNext ==
    \/ Next
    \/ SearchEndsBeforeTraversal
    \/ SearchAvailabilityViaForm

SpecEntry == EntryInit /\ [][EntryNext]_vars

\* The booking gate, from every result a traversal can hand to its caller:
\* a flag, and a list of up to MaxSlots slot dictionaries.
BookingInit ==
    /\ cal = [c \in Cells |-> [week |-> 2, kind |-> "slot", known |-> FALSE]]
    /\ lastWeek = max_weeks - 1
    /\ selected = [c \in Cells |-> FALSE]
    /\ dispWeek = 0
    /\ page = "calendar"
    /\ browser_automation = FALSE
    /\ pc = "done"
    /\ phase = 2
    /\ week_num = 0
    /\ slots \in SlotLists
    /\ slots_clicked_flag \in FlagArgs
    /\ all_clicked_slot_ids = <<>>
    /\ cellIdx = 1
    /\ week_slots = <<>>
    /\ slot_clicked_flag = 0
    /\ clicked_cell_ids = <<>>
    /\ ev = NoEvent
    /\ visits = <<>>
    /\ hist = NoHistory
    /\ call = NoCall

BookingNext ==
    \/ SearchAvailabilityViaForm
    \/ ClickReservationDirect

SpecBooking == BookingInit /\ [][BookingNext]_vars

\* ------------------------------------------------ components called alone
\* The variables of a facility traversal, which a component call leaves alone,
\* and their values while no traversal runs.
traversalVars ==
    <<cal, selected, page, browser_automation, pc, phase, week_num, slots,
      slots_clicked_flag, all_clicked_slot_ids, weekLocals, ev, visits, hist>>

NoTraversal ==
    /\ cal = [c \in Cells |-> [week |-> 2, kind |-> "slot", known |-> FALSE]]
    /\ selected = [c \in Cells |-> FALSE]
    /\ page = "calendar"
    /\ browser_automation = FALSE
    /\ pc = "idle"
    /\ phase = 1
    /\ week_num = 0
    /\ slots = <<>>
    /\ slots_clicked_flag = 0
    /\ all_clicked_slot_ids = <<>>
    /\ cellIdx = 1
    /\ week_slots = <<>>
    /\ slot_clicked_flag = 0
    /\ clicked_cell_ids = <<>>
    /\ ev = NoEvent
    /\ visits = <<>>
    /\ hist = NoHistory

\* ------------------------------------------ CalendarNavigator.is_on_week_one
\* datetime.now().strftime('%Y%m%d'), as the integer the code compares with.
today_int == 20261105

\* A part of a cell id between underscores: a digit string with its value, or
\* a string int() rejects.
DateStrs ==
    {[digits |-> TRUE, value |-> today_int], [digits |-> TRUE, value |-> today_int + 1],
     [digits |-> FALSE, value |-> 0]}
TimeSlotStr == [digits |-> TRUE, value |-> 900]

\* What cell.get_attribute('id') gives for a td[id] cell: an exception (the
\* cell left the document), no value, or the id as its parts between
\* underscores ("20261105" is one part, "20261105_0900" two).
CellIdReads ==
    {[read |-> "raise", parts |-> <<>>], [read |-> "none", parts |-> <<>>]}
    \cup {[read |-> "ok", parts |-> <<d>>] : d \in DateStrs}
    \cup {[read |-> "ok", parts |-> <<d, TimeSlotStr>>] : d \in DateStrs}

\* What the page shows to is_on_week_one: whether table#week-info becomes
\* visible, whether query_selector_all raises, and the td[id] cells.
WeekTables ==
    [visible : BOOLEAN, queryRaises : BOOLEAN,
     cells : UNION {[1..n -> CellIdReads] : n \in 0..MaxTableCells}]

\* int(date_str).
IntOf(str) == IF str.digits THEN [ok |-> TRUE, value |-> str.value]
              ELSE [ok |-> FALSE, value |-> 0]

\* A scan in which an id that int() rejects ends the whole check.
RECURSIVE ScanCellsStrict(_, _)
ScanCellsStrict(cells, i) ==
    IF i > Len(cells) THEN "False"
    ELSE LET c == cells[i] IN
         IF c.read = "raise" THEN ScanCellsStrict(cells, i + 1)
         ELSE IF c.read = "none" \/ Len(c.parts) < 2 THEN ScanCellsStrict(cells, i + 1)
         ELSE LET n == IntOf(c.parts[1]) IN
              IF ~n.ok THEN "raise"
              ELSE IF n.value = today_int THEN "True"
              ELSE ScanCellsStrict(cells, i + 1)

\* Lines 33-51: the loop over the cells; a cell whose id cannot be read, has no
\* underscore or no integer before it is passed over.
RECURSIVE ScanCells(_, _)
ScanCells(cells, i) ==
    IF i > Len(cells) THEN "False"
    ELSE LET c == cells[i] IN
         IF c.read = "raise" THEN ScanCells(cells, i + 1)
         ELSE IF c.read = "none" \/ Len(c.parts) < 2 THEN ScanCells(cells, i + 1)
         ELSE LET n == IntOf(c.parts[1]) IN
              IF n.ok /\ n.value = today_int THEN "True"
              ELSE ScanCells(cells, i + 1)

\* Lines 17-51, inside the outer try: "True", "False" or "raise".
IsOnWeekOneBody(table) ==
    IF ~table.visible THEN "False"
    ELSE IF table.queryRaises THEN "raise"
    ELSE IF table.cells = <<>> THEN "False"
    ELSE ScanCells(table.cells, 1)

\* Lines 16-54: the outer handler turns every exception into False.
is_on_week_one(table) ==
    LET r == IsOnWeekOneBody(table) IN IF r = "raise" THEN "False" ELSE r

\* A call of is_on_week_one on any week table.
CheckWeekOne ==
    /\ call.op = "is_on_week_one"
    /\ call.result = "pending"
    /\ call' = [call EXCEPT !.result = is_on_week_one(call.table)]
    /\ UNCHANGED <<traversalVars, siteVars, dispWeek>>

\* ------------------------------- CalendarNavigator.navigate_back_to_week_one
\* A loop bound that allows one iteration too many.
MaxBackwardClicksOffByOne == 6 + 1

\* max_backward_clicks = 6: the number of iterations of the loop.
max_backward_clicks == 6

\* The table of displayed week w as is_on_week_one meets it: its cells carry
\* the dates of that week (week 1 holds today); the wait for the table can fail.
TableOfWeek(w, loads) ==
    [visible |-> loads, queryRaises |-> FALSE,
     cells |-> <<[read |-> "ok",
                  parts |-> <<[digits |-> TRUE, value |-> today_int + w], TimeSlotStr>>]>>]

\* What the search for the previous-week control finds: the site disables the
\* control on week 1; "missing" is no selector giving a visible control.
PrevButtonStates(w) == IF w = 0 THEN {"disabled", "missing"} ELSE {"found", "missing"}

\* What lines 118-144 can do once the control is found: the scroll raises (no
\* click), the click raises, the click moves the calendar one week back and the
\* waits return, it moves it and a wait raises, or the site drops the update.
BackClickOutcomes == {"scrollRaise", "clickRaise", "moved", "movedWaitRaise", "dropped"}

BackEnvs(w) ==
    [load1 : BOOLEAN, button : PrevButtonStates(w), co : BackClickOutcomes, load2 : BOOLEAN]

\* What a call has done so far, event by event ("True"/"False": a result of
\* is_on_week_one; "click": a click on the previous-week control).
NoObservation ==
    [clicks |-> 0, lastCheck |-> "none", unchecked |-> FALSE,
     clickAfterTrue |-> FALSE, clickUnchecked |-> FALSE]

RECURSIVE Observe(_, _)
Observe(o, events) ==
    IF events = <<>> THEN o
    ELSE LET x == Head(events)
             o1 == IF x = "click"
                   THEN [o EXCEPT !.clicks = @ + 1, !.unchecked = TRUE,
                                  !.clickAfterTrue = @ \/ o.lastCheck = "True",
                                  !.clickUnchecked = @ \/ o.unchecked]
                   ELSE [o EXCEPT !.lastCheck = x, !.unchecked = FALSE]
         IN Observe(o1, Tail(events))

\* An iteration that takes a disabled or missing control for week 1 without
\* asking is_on_week_one again.
BackIterationTrustingControl(w, e) ==
    LET c1 == is_on_week_one(TableOfWeek(w, e.load1)) IN
    IF c1 = "True" THEN [events |-> <<c1>>, week |-> w, ret |-> "True", why |-> "confirmed"]
    ELSE IF e.button # "found"
    THEN [events |-> <<c1>>, week |-> w, ret |-> "True", why |-> e.button]
    ELSE IF e.co = "scrollRaise"
    THEN [events |-> <<c1>>, week |-> w, ret |-> "continue", why |-> "none"]
    ELSE IF e.co = "clickRaise"
    THEN [events |-> <<c1, "click">>, week |-> w, ret |-> "continue", why |-> "none"]
    ELSE IF e.co = "movedWaitRaise"
    THEN [events |-> <<c1, "click">>, week |-> w - 1, ret |-> "continue", why |-> "none"]
    ELSE LET w2 == IF e.co = "moved" THEN w - 1 ELSE w
             c2 == is_on_week_one(TableOfWeek(w2, e.load2))
         IN [events |-> <<c1, "click", c2>>, week |-> w2,
             ret |-> IF c2 = "True" THEN "True" ELSE "continue",
             why |-> IF c2 = "True" THEN "confirmed" ELSE "none"]

\* Lines 68-144: one iteration of the loop on displayed week w.
BackIteration(w, e) ==
    LET c1 == is_on_week_one(TableOfWeek(w, e.load1)) IN
    IF c1 = "True" THEN [events |-> <<c1>>, week |-> w, ret |-> "True", why |-> "confirmed"]
    ELSE IF e.button # "found"
    THEN LET c2 == is_on_week_one(TableOfWeek(w, e.load2))
         IN [events |-> <<c1, c2>>, week |-> w, ret |-> c2, why |-> e.button]
    ELSE IF e.co = "scrollRaise"
    THEN [events |-> <<c1>>, week |-> w, ret |-> "continue", why |-> "none"]
    ELSE IF e.co = "clickRaise"
    THEN [events |-> <<c1, "click">>, week |-> w, ret |-> "continue", why |-> "none"]
    ELSE IF e.co = "movedWaitRaise"
    THEN [events |-> <<c1, "click">>, week |-> w - 1, ret |-> "continue", why |-> "none"]
    ELSE LET w2 == IF e.co = "moved" THEN w - 1 ELSE w
             c2 == is_on_week_one(TableOfWeek(w2, e.load2))
         IN [events |-> <<c1, "click", c2>>, week |-> w2,
             ret |-> IF c2 = "True" THEN "True" ELSE "continue",
             why |-> IF c2 = "True" THEN "confirmed" ELSE "none"]

\* for click_num in range(max_backward_clicks): the next iteration.
BackToWeekOneIteration ==
    /\ call.op = "navigate_back_to_week_one"
    /\ call.result = "pending"
    /\ call.click_num < max_backward_clicks
    /\ \E e \in BackEnvs(dispWeek) :
         LET r == BackIteration(dispWeek, e) IN
         /\ dispWeek' = r.week
         /\ call' = [call EXCEPT !.click_num = @ + 1,
                                 !.obs = Observe(@, r.events),
                                 !.result = IF r.ret = "continue" THEN "pending" ELSE r.ret,
                                 !.why = r.why]
    /\ UNCHANGED <<traversalVars, siteVars>>

\* Lines 146-153: the check after the last iteration.
BackToWeekOneFinalCheck ==
    /\ call.op = "navigate_back_to_week_one"
    /\ call.result = "pending"
    /\ call.click_num = max_backward_clicks
    /\ \E loads \in BOOLEAN :
         LET c == is_on_week_one(TableOfWeek(dispWeek, loads)) IN
         call' = [call EXCEPT !.obs = Observe(@, <<c>>), !.result = c, !.why = "exhausted"]
    /\ UNCHANGED <<traversalVars, siteVars, dispWeek>>

\* ------- CalendarNavigator.navigate_to_next_week / navigate_to_previous_week
NumNextWeekSelectors == 6
NumPrevWeekSelectors == 4

\* What trying one selector can meet.  "nomatch": no visible element (the wait
\* raises, or query_selector gives None); "hidden": an element whose display
\* is none; otherwise the control is there, and, unless the site has disabled
\* it, the scroll raises, the click raises, the click moves the calendar and
\* the waits return, it moves it and a wait after the click raises, or the
\* site drops the update.
SelectorOutcomes ==
    {"nomatch", "hidden", "scrollRaise", "clickRaise", "moved", "movedWaitRaise", "dropped"}

\* One pass of the selector loop, with the control disabled iff atBoundary:
\* whether a click was issued, whether the week changed, and how the pass ends.
TrySelector(atBoundary, e) ==
    IF e \in {"nomatch", "hidden"}
    THEN [click |-> FALSE, moved |-> FALSE, ret |-> "continue"]
    ELSE IF atBoundary THEN [click |-> FALSE, moved |-> FALSE, ret |-> "False"]
    ELSE IF e = "scrollRaise" THEN [click |-> FALSE, moved |-> FALSE, ret |-> "continue"]
    ELSE IF e = "clickRaise" THEN [click |-> TRUE, moved |-> FALSE, ret |-> "continue"]
    ELSE IF e = "movedWaitRaise" THEN [click |-> TRUE, moved |-> TRUE, ret |-> "continue"]
    ELSE [click |-> TRUE, moved |-> (e = "moved"), ret |-> "True"]

\* The frame after the pass over selector number call.sel: the loop goes on,
\* or the call returns (False once the selectors are used up).
AfterSelector(r, numSelectors) ==
    [call EXCEPT !.sel = @ + 1,
                 !.clicks = @ + (IF r.click THEN 1 ELSE 0),
                 !.result = IF r.ret # "continue" THEN r.ret
                            ELSE IF call.sel = numSelectors THEN "False"
                            ELSE "pending"]

\* Lines 172-210: the pass over one selector of next_week_selectors.
NextWeekSelector ==
    /\ call.op = "navigate_to_next_week"
    /\ call.result = "pending"
    /\ \E e \in SelectorOutcomes :
         LET r == TrySelector(dispWeek >= lastWeek, e) IN
         /\ dispWeek' = IF r.moved THEN dispWeek + 1 ELSE dispWeek
         /\ call' = AfterSelector(r, NumNextWeekSelectors)
    /\ UNCHANGED <<traversalVars, siteVars>>

\* Lines 226-262: the pass over one selector of prev_week_selectors.
PrevWeekSelector ==
    /\ call.op = "navigate_to_previous_week"
    /\ call.result = "pending"
    /\ \E e \in SelectorOutcomes :
         LET r == TrySelector(dispWeek = 0, e) IN
         /\ dispWeek' = IF r.moved THEN dispWeek - 1 ELSE dispWeek
         /\ call' = AfterSelector(r, NumPrevWeekSelectors)
    /\ UNCHANGED <<traversalVars, siteVars>>

\* ------------------------------------------ the navigator, call by call
NavigatorCalls ==
    {[op |-> "is_on_week_one", table |-> t, result |-> "pending"] : t \in WeekTables}
    \cup {[op |-> "navigate_back_to_week_one", click_num |-> 0, obs |-> NoObservation,
           result |-> "pending", why |-> "none"]}
    \cup {[op |-> o, sel |-> 1, clicks |-> 0, result |-> "pending"] :
            o \in {"navigate_to_next_week", "navigate_to_previous_week"}}

NavInit ==
    /\ NoTraversal
    /\ lastWeek \in LastWeekChoices
    /\ dispWeek \in 0..lastWeek
    /\ call \in NavigatorCalls

NavNext ==
    \/ CheckWeekOne
    \/ BackToWeekOneIteration
    \/ BackToWeekOneFinalCheck
    \/ NextWeekSelector
    \/ PrevWeekSelector

SpecNav == NavInit /\ [][NavNext]_vars

\* ------------------------------------------------ LoginHandler.is_logged_in
\* What is_logged_in reads of a page: whether the reads work, and which of the
\* markers it looks for are in the content, the title and the URL.  A timeout
\* message contains the session word, and 'TransUserLogin' contains both
\* 'UserLogin' and 'Trans'.
ReadablePages ==
    {p \in [read : {"ok"},
            timeout_msg : BOOLEAN, session_word : BOOLEAN, has_logout : BOOLEAN,
            has_user_info : BOOLEAN, has_login_form : BOOLEAN,
            error_title : BOOLEAN, is_home_screen : BOOLEAN, url_matches : BOOLEAN,
            url_trans_user_login : BOOLEAN, url_user_login : BOOLEAN,
            url_trans : BOOLEAN] :
        /\ p.timeout_msg => p.session_word
        /\ p.url_trans_user_login => (p.url_user_login /\ p.url_trans)}

BlankPage ==
    [read |-> "ok", timeout_msg |-> FALSE, session_word |-> FALSE, has_logout |-> FALSE,
     has_user_info |-> FALSE, has_login_form |-> FALSE, error_title |-> FALSE,
     is_home_screen |-> FALSE, url_matches |-> FALSE, url_trans_user_login |-> FALSE,
     url_user_login |-> FALSE, url_trans |-> FALSE]

\* A page that is closed, or whose title() or content() raises.
UnreadablePages == {[BlankPage EXCEPT !.read = r] : r \in {"closed", "titleRaises", "contentRaises"}}

LoginPages == ReadablePages \cup UnreadablePages

\* Lines 227-230.
is_login_page(p) == p.url_trans_user_login \/ (p.url_user_login /\ p.url_trans)

\* A check that lets a logout marker outweigh the login form.
IsLoggedInBodyPositiveWins(p) ==
    IF p.read = "closed" THEN "False"
    ELSE IF p.read # "ok" THEN "raise"
    ELSE IF p.timeout_msg THEN "False"
    ELSE IF p.error_title /\ p.session_word THEN "False"
    ELSE IF p.has_logout
            \/ ((\/ (p.url_matches /\ (p.is_home_screen \/ p.has_logout))
                 \/ (p.has_user_info /\ p.url_matches))
                /\ ~p.has_login_form /\ ~is_login_page(p))
         THEN "True" ELSE "False"

\* Lines 177-250, inside the try: "True", "False" or "raise".
IsLoggedInBody(p) ==
    IF p.read = "closed" THEN "False"
    ELSE IF p.read # "ok" THEN "raise"
    ELSE IF p.timeout_msg THEN "False"
    ELSE IF p.error_title /\ p.session_word THEN "False"
    ELSE IF /\ \/ p.has_logout
               \/ (p.url_matches /\ (p.is_home_screen \/ p.has_logout))
               \/ (p.has_user_info /\ p.url_matches)
            /\ ~p.has_login_form
            /\ ~is_login_page(p)
         THEN "True" ELSE "False"

\* A check without the handler of lines 252-255.
IsLoggedInUnhandled(p) == IsLoggedInBody(p)

\* Lines 176-255: the handler turns every exception into False.
is_logged_in(p) ==
    LET r == IsLoggedInBody(p) IN IF r = "raise" THEN "False" ELSE r

\* A call of is_logged_in on any page.
CheckLoggedIn ==
    /\ call.op = "is_logged_in"
    /\ call.result = "pending"
    /\ call' = [call EXCEPT !.result = is_logged_in(call.page)]
    /\ UNCHANGED <<traversalVars, siteVars, dispWeek>>

\* ------------------------------------------------------ LoginHandler.login
\* The states login() moves through, in order.
LoginOrder == <<"LoggedOut", "LoginPageReached", "CredentialsSubmitted", "LoggedIn">>

\* What _verify_login_success reads of the page after the submission, and
\* whether its reads or context.cookies() raise.
VerifyInputs ==
    [has_logout : BOOLEAN, is_home_screen : BOOLEAN, url_matches : BOOLEAN,
     raises : {"none", "read", "cookies"}]

\* Lines 277: the page is classified as a logged-in page.
ClassifiedSuccess(v) == (v.url_matches /\ (v.is_home_screen \/ v.has_logout)) \/ v.has_logout

\* A verification that accepts every page it can read.
VerifyAcceptingAll(v) == IF v.raises # "none" THEN "raise" ELSE "cookies"

\* Lines 257-288: the cookies, or an exception.
verify_login_success(v) ==
    IF v.raises # "none" THEN "raise"
    ELSE IF ClassifiedSuccess(v) THEN "cookies"
    ELSE "raise"

\* Lines 67-75: the handler of login(): the page is closed unless it is the
\* main page, and the exception is raised again.
LoginFailed ==
    [call EXCEPT !.pc = "Error", !.result = "raise",
                 !.opened = IF call.main_page = "login_page" THEN @ ELSE "closed"]

\* Line 31: context.new_page(), before the try.
LoginOpenPage ==
    /\ call.op = "login"
    /\ call.pc = "start"
    /\ \E ok \in BOOLEAN :
         call' = IF ok THEN [call EXCEPT !.pc = "LoggedOut", !.opened = "open",
                                         !.trail = <<"LoggedOut">>]
                 ELSE [call EXCEPT !.pc = "Error", !.result = "raise"]
    /\ UNCHANGED <<traversalVars, siteVars, dispWeek>>

\* Lines 35-53: the home page is loaded and checked, the login control is
\* clicked and the credential form awaited; any of these can raise.
LoginReachForm ==
    /\ call.op = "login"
    /\ call.pc = "LoggedOut"
    /\ \E ok \in BOOLEAN :
         call' = IF ok THEN [call EXCEPT !.pc = "LoginPageReached",
                                         !.trail = Append(@, "LoginPageReached")]
                 ELSE LoginFailed
    /\ UNCHANGED <<traversalVars, siteVars, dispWeek>>

\* Line 56: the form is filled and submitted.
LoginSubmit ==
    /\ call.op = "login"
    /\ call.pc = "LoginPageReached"
    /\ \E ok \in BOOLEAN :
         call' = IF ok THEN [call EXCEPT !.pc = "CredentialsSubmitted",
                                         !.trail = Append(@, "CredentialsSubmitted")]
                 ELSE LoginFailed
    /\ UNCHANGED <<traversalVars, siteVars, dispWeek>>

\* Lines 59-65: the result is classified; on success the page becomes the main
\* page and the cookies are returned.
LoginVerify ==
    /\ call.op = "login"
    /\ call.pc = "CredentialsSubmitted"
    /\ \E v \in VerifyInputs :
         call' = IF verify_login_success(v) = "cookies"
                 THEN [call EXCEPT !.pc = "LoggedIn", !.trail = Append(@, "LoggedIn"),
                                   !.main_page = "login_page", !.result = "cookies",
                                   !.verified = v]
                 ELSE [LoginFailed EXCEPT !.verified = v]
    /\ UNCHANGED <<traversalVars, siteVars, dispWeek>>

\* ------------------------------- SessionRecovery.ensure_logged_in_with_retry
MaxRetryCap == 2         \* the largest max_retries a caller passes
MaxLoginFailures == 3    \* the most consecutive times the site refuses the login

\* After the Home button or the goto: the home page of a logged-out visitor.
HomeLoggedOut == [BlankPage EXCEPT !.is_home_screen = TRUE, !.url_matches = TRUE]

\* A policy that gives up one failure late.
RetryVerdictOffByOne(max_retries, attempt) ==
    IF max_retries > 0 /\ attempt > max_retries THEN "False" ELSE "pending"

\* Lines 223-225: after a failed attempt, give up or go on.
RetryVerdict(max_retries, attempt) ==
    IF max_retries > 0 /\ attempt >= max_retries THEN "False" ELSE "pending"

\* Line 208, on the content read at line 207.
SeemsLoggedIn(p) == p.read = "ok" /\ p.has_logout

\* Lines 194-238: one pass of the while loop.  is_session_timeout_page also
\* reacts to indicators is_logged_in does not look for (hint); the Home click
\* and the goto before the next attempt may or may not change the page.
EnsureAttempt ==
    /\ call.op = "ensure_logged_in_with_retry"
    /\ call.result = "pending"
    /\ \E hint \in BOOLEAN, homeWorks \in BOOLEAN, gotoWorks \in BOOLEAN :
         LET attempt == call.attempt + 1
             is_timeout == call.page.read = "ok" /\ (call.page.timeout_msg \/ hint)
             pg == IF is_timeout /\ homeWorks THEN HomeLoggedOut ELSE call.page
         IN IF SeemsLoggedIn(pg)
            THEN call' = [call EXCEPT !.attempt = attempt, !.page = pg, !.result = "True"]
            ELSE IF call.failsLeft = 0
            THEN call' = [call EXCEPT !.attempt = attempt, !.page = pg,
                                      !.loginCalls = @ + 1, !.result = "True"]
            ELSE call' = [call EXCEPT !.attempt = attempt,
                                      !.loginCalls = @ + 1,
                                      !.failsLeft = @ - 1,
                                      !.result = RetryVerdict(call.max_retries, attempt),
                                      !.page = IF gotoWorks /\ pg.read # "closed"
                                               THEN HomeLoggedOut ELSE pg]
    /\ UNCHANGED <<traversalVars, siteVars, dispWeek>>

\* ------------------------------------------------- the login, call by call
LoginCalls ==
    {[op |-> "is_logged_in", page |-> p, result |-> "pending"] : p \in LoginPages}
    \cup {[op |-> "login", pc |-> "start", opened |-> "none", main_page |-> m,
           was_main_page |-> m, trail |-> <<>>, result |-> "pending",
           verified |-> [has_logout |-> FALSE, is_home_screen |-> FALSE,
                         url_matches |-> FALSE, raises |-> "none"]] :
            m \in {"none", "old_page"}}
    \cup {[op |-> "ensure_logged_in_with_retry", given |-> p, page |-> p,
           max_retries |-> n, failsLeft |-> f, attempt |-> 0, loginCalls |-> 0,
           result |-> "pending"] :
            p \in LoginPages, n \in 0..MaxRetryCap, f \in 0..MaxLoginFailures}

LoginInit ==
    /\ NoTraversal
    /\ lastWeek = max_weeks - 1
    /\ dispWeek = 0
    /\ call \in LoginCalls

LoginNext ==
    \/ CheckLoggedIn
    \/ LoginOpenPage
    \/ LoginReachForm
    \/ LoginSubmit
    \/ LoginVerify
    \/ EnsureAttempt

SpecLogin == LoginInit /\ [][LoginNext]_vars

\* The retry loop keeps running: nothing but its own return ends it.
SpecLoginFair == SpecLogin /\ WF_vars(EnsureAttempt)

\* ------------------------------ CellSelectionVerifier.verify_cell_selection
\* The probes in the order the code makes them: the page's JavaScript errors,
\* the cell's data-selected attribute, its class, its computed style, the
\* parent's selected cells, the siblings, the page's JavaScript state, the
\* hidden inputs, and the cell's current state.
NumProbes == 9

\* The probes whose positive answer makes the function return True; the others
\* are only logged.
DecidingProbes == {2, 3, 5, 7, 8, 9}

\* What a probe can give: a positive sign of selection, none, or an exception.
ProbeResults == {"positive", "negative", "raise"}
ProbeRuns == [1..NumProbes -> ProbeResults]

\* Lines 37-213, inside the try, from probe i on: "True", "False" or "raise".
RECURSIVE Probe(_, _)
Probe(probes, i) ==
    IF i > NumProbes THEN "False"
    ELSE IF probes[i] = "raise" THEN "raise"
    ELSE IF i \in DecidingProbes /\ probes[i] = "positive" THEN "True"
    ELSE Probe(probes, i + 1)

\* A verification without the handler of lines 215-219.
VerifyCellSelectionUnhandled(probes) == Probe(probes, 1)

\* Lines 36-219: the handler turns every exception into False.
verify_cell_selection(probes) ==
    LET r == Probe(probes, 1) IN IF r = "raise" THEN "False" ELSE r

\* A call of verify_cell_selection on any page and cell.  Whether the cell
\* still shows its "available" icon is a fact of the cell none of the probes
\* reads.
VerifyCellSelection ==
    /\ call.op = "verify_cell_selection"
    /\ call.result = "pending"
    /\ call' = [call EXCEPT !.result = verify_cell_selection(call.probes)]
    /\ UNCHANGED <<traversalVars, siteVars, dispWeek>>

VerifierInit ==
    /\ NoTraversal
    /\ lastWeek = max_weeks - 1
    /\ dispWeek = 0
    /\ call \in {[op |-> "verify_cell_selection", probes |-> pr, icon_absent |-> ia,
                   result |-> "pending"] :
                    pr \in ProbeRuns, ia \in BOOLEAN}

VerifierNext == VerifyCellSelection

SpecVerifier == VerifierInit /\ [][VerifierNext]_vars

\* ------------------------------------------------------------ BrowserSession
MaxLaunches == 2     \* start() launches a browser at most this many times

\* A released or never created reference (None).
NoRef == 0

\* __init__ (lines 17-21): nothing is held.  A held reference is the number of
\* the launch that made the object; live is the set of <<kind, launch>> of the
\* objects made and not yet released; connected is browser.is_connected().
NewSession ==
    [browser |-> NoRef, context |-> NoRef, playwright |-> NoRef, main_page |-> NoRef,
     connected |-> FALSE, live |-> {}, launches |-> 0]

\* What the close calls of one stop() do: each returns or raises.
StopEnvs == [page : BOOLEAN, context : BOOLEAN, browser : BOOLEAN, playwright : BOOLEAN]

\* Lines 81-86: the main page is closed inside a try; the reference is cleared
\* only after a close that returned.
StopPage(s, e) ==
    IF s.main_page = NoRef THEN [s |-> s, attempted |-> {}]
    ELSE [s |-> IF e.page
                THEN [s EXCEPT !.live = @ \ {<<"page", s.main_page>>}, !.main_page = NoRef]
                ELSE s,
          attempted |-> {"page"}]

\* Lines 87-92 from the resource called kind on: each held resource is closed
\* in turn, and a close that raises ends stop() with that exception.
RECURSIVE StopRest(_, _, _, _)
StopRest(s, e, kinds, attempted) ==
    IF kinds = <<>> THEN [s |-> s, attempted |-> attempted, raised |-> FALSE]
    ELSE LET k == Head(kinds) IN
         IF s[k] = NoRef THEN StopRest(s, e, Tail(kinds), attempted)
         ELSE IF ~e[k] THEN [s |-> s, attempted |-> attempted \cup {k}, raised |-> TRUE]
         ELSE StopRest([s EXCEPT !.live = @ \ {<<k, s[k]>>},
                                 !.connected = IF k = "browser" THEN FALSE ELSE @],
                       e, Tail(kinds), attempted \cup {k})

\* Lines 78-93: stop().
Stop(s, e) ==
    LET p == StopPage(s, e)
    IN StopRest(p.s, e, <<"context", "browser", "playwright">>, p.attempted)

\* Where the launch of lines 38-75 can raise.
LaunchFailures == {"none", "playwright", "browser", "context", "headers"}

\* Lines 38-75: the driver is started, the browser launched and the context
\* made, each reference assigned as soon as its object exists.
Launch(s, fail) ==
    LET g == s.launches + 1
        s1 == [s EXCEPT !.playwright = g, !.launches = g,
                        !.live = @ \cup {<<"playwright", g>>}]
        s2 == [s1 EXCEPT !.browser = g, !.connected = TRUE,
                         !.live = @ \cup {<<"browser", g>>}]
        s3 == [s2 EXCEPT !.context = g, !.live = @ \cup {<<"context", g>>}]
    IN IF fail = "playwright" THEN [s |-> s, raised |-> TRUE]
       ELSE IF fail = "browser" THEN [s |-> s1, raised |-> TRUE]
       ELSE IF fail = "context" THEN [s |-> s2, raised |-> TRUE]
       ELSE [s |-> s3, raised |-> (fail = "headers")]

\* A start() that launches whatever it holds.
StartAlwaysLaunching(s, e) ==
    Launch(s, e.fail)
        @@ [found |-> IF s.browser # NoRef /\ s.connected THEN "connected" ELSE "none"]

\* Lines 23-76: start().
Start(s, e) ==
    IF s.browser # NoRef /\ s.connected
    THEN [s |-> s, raised |-> FALSE, found |-> "connected"]
    ELSE IF s.browser # NoRef
    THEN Launch(Stop(s, e.stop).s, e.fail) @@ [found |-> "disconnected"]
    ELSE Launch(s, e.fail) @@ [found |-> "none"]

\* The object and what the last call on it did.
SessionFrame(s, last) == [op |-> "BrowserSession", s |-> s, last |-> last, result |-> "none"]

NoSessionCall ==
    [op |-> "none", found |-> "none", before |-> NewSession, attempted |-> {},
     raised |-> FALSE, repeats |-> 0]

\* A call of start().
SessionStart ==
    /\ call.op = "BrowserSession"
    /\ \E e \in [stop : StopEnvs, fail : LaunchFailures] :
         LET r == Start(call.s, e) IN
         /\ call.s.launches < MaxLaunches \/ r.found = "connected"
         /\ call' = SessionFrame(r.s,
                       [op |-> "start", found |-> r.found, before |-> call.s,
                        attempted |-> {}, raised |-> r.raised,
                        repeats |-> IF r.found = "connected" /\ call.last.op = "start"
                                       /\ call.last.repeats < 2
                                    THEN call.last.repeats + 1
                                    ELSE IF r.found = "connected" /\ call.last.op = "start"
                                    THEN call.last.repeats ELSE 0])
    /\ UNCHANGED <<traversalVars, siteVars, dispWeek>>

\* A call of stop().
SessionStop ==
    /\ call.op = "BrowserSession"
    /\ \E e \in StopEnvs :
         LET r == Stop(call.s, e) IN
         call' = SessionFrame(r.s,
                    [op |-> "stop", found |-> "none", before |-> call.s,
                     attempted |-> r.attempted, raised |-> r.raised, repeats |-> 0])
    /\ UNCHANGED <<traversalVars, siteVars, dispWeek>>

\* Lines 103-111: create_page() and set_main_page(), as login() uses them: a
\* page of the current context becomes the main page.
SessionSetMainPage ==
    /\ call.op = "BrowserSession"
    /\ call.s.context # NoRef
    /\ call.s.connected
    /\ call.s.main_page # call.s.context
    /\ call' = SessionFrame([call.s EXCEPT !.main_page = call.s.context,
                                           !.live = @ \cup {<<"page", call.s.context>>}],
                            [NoSessionCall EXCEPT !.op = "set_main_page", !.before = call.s])
    /\ UNCHANGED <<traversalVars, siteVars, dispWeek>>

\* The browser process dies: its pages, context and browser object are gone,
\* the driver process stays.
BrowserDisconnects ==
    /\ call.op = "BrowserSession"
    /\ call.s.connected
    /\ call' = SessionFrame([call.s EXCEPT !.connected = FALSE,
                                           !.live = {r \in @ : r[1] = "playwright"
                                                                 \/ r[2] # call.s.browser}],
                            [NoSessionCall EXCEPT !.op = "disconnect", !.before = call.s])
    /\ UNCHANGED <<traversalVars, siteVars, dispWeek>>

SessionInit ==
    /\ NoTraversal
    /\ lastWeek = max_weeks - 1
    /\ dispWeek = 0
    /\ call = SessionFrame(NewSession, NoSessionCall)

SessionNext ==
    \/ SessionStart
    \/ SessionStop
    \/ SessionSetMainPage
    \/ BrowserDisconnects

SpecSession == SessionInit /\ [][SessionNext]_vars

\* ------------------------------------------------- BookingHandler, the flow
\* What the page shows each stage handler (booking_handler.py).
\* Terms of use (lines 143-256): the page is not the terms page ("absent"), the
\* confirm control was clicked ("confirmed") or not ("unconfirmed"), or an
\* operation outside the selector loops raised ("raise").
TermsOutcomes == {"absent", "confirmed", "unconfirmed", "raise"}

\* Reservation confirmation (lines 258-428): "clicked_dialog" is a click of the
\* final control whose dialog the listener accepted, "clicked_no_dialog" a click
\* after which no dialog reached the listener (lines 359-362),
\* "alt_accepted" a failed click followed by the dialog wait of lines 378-400,
\* "no_button" no selector yielding a click.
ConfirmationOutcomes ==
    {"absent", "clicked_dialog", "clicked_no_dialog", "alt_accepted", "no_button", "raise"}

\* Reservation completion (lines 430-587): the payment control was clicked
\* ("paid") or not ("no_button").
CompletionOutcomes == {"absent", "paid", "no_button", "raise"}

\* Lines 152-256.
HandleTermsOfUsePage(e) ==
    IF e = "raise" THEN FALSE                 \* line 254
    ELSE IF e = "absent" THEN TRUE            \* line 253
    ELSE e = "confirmed"                      \* line 252: confirm_clicked

\* Lines 267-428.
HandleReservationConfirmationPage(e) ==
    IF e = "raise" THEN FALSE                 \* line 426
    ELSE IF e = "absent" THEN TRUE            \* line 425
    ELSE e \in {"clicked_dialog", "clicked_no_dialog", "alt_accepted"}
                                              \* line 424: final_reserve_clicked

\* Lines 439-587.
HandleReservationCompletionPage(e) ==
    IF e = "raise" THEN FALSE                 \* line 585
    ELSE IF e = "absent" THEN TRUE            \* line 584
    ELSE e = "paid"                           \* line 583: payment_button_clicked

\* Lines 108-120: the three handlers are awaited and their values dropped.
FlowResult(termsRet, confirmationRet, completionRet) == TRUE

StagePending == [outcome |-> "pending", ret |-> FALSE]

MaxLines == 2                    \* headcount fields on the confirmation page
NumFinalReserveSelectors == 5    \* lines 293-298

\* The flow's frame.  Besides the stage results it records what the flow did
\* to the site: log lists the controls clicked and the fill of the headcount
\* fields in the order they happened ("primary", "terms", "fill", "final",
\* "payment"), lines and filled count the headcount fields of the page and
\* those that received a value, selector is the final-control selector the
\* confirmation stage is at.
FlowCalls ==
    {[op |-> "click_reservation_button_if_slots_found", flag |-> f, button |-> b,
      at |-> "entry", terms |-> StagePending, confirmation |-> StagePending,
      completion |-> StagePending, log |-> <<>>, lines |-> 0, filled |-> 0,
      selector |-> 1, result |-> "pending"] :
        f \in FlagArgs, b \in ButtonStates}

\* A flow whose stages run as soon as the primary control was looked for.
StagesRunWithoutClick(r) == r.looked

\* Lines 93-111: the stage handlers are called in the branch that clicked the
\* primary control.
StagesRun(r) == r.clicked

InFlow(at) ==
    /\ call.op = "click_reservation_button_if_slots_found"
    /\ call.at = at

\* Lines 48-106 and 121-141: the gate, the primary control and its click; a
\* raising click or wait is caught at line 129.
FlowClickReserve ==
    /\ InFlow("entry")
    /\ \E raises \in BOOLEAN :
         LET r == ClickReservationButtonIfSlotsFound(call.flag, <<>>, call.button)
             log == IF r.clicked THEN <<"primary">> ELSE <<>>
         IN /\ raises => r.clicked
            /\ call' = IF StagesRun(r) /\ ~raises
                       THEN [call EXCEPT !.at = "terms", !.log = log]
                       ELSE [call EXCEPT !.at = "returned", !.result = "False",
                                         !.log = log]
    /\ UNCHANGED <<traversalVars, lastWeek, dispWeek>>

\* Line 109.
FlowTerms ==
    /\ InFlow("terms")
    /\ \E e \in TermsOutcomes :
         call' = [call EXCEPT !.at = "confirmation",
                              !.terms = [outcome |-> e, ret |-> HandleTermsOfUsePage(e)],
                              !.log = IF e = "confirmed" THEN Append(@, "terms") ELSE @]
    /\ UNCHANGED <<traversalVars, lastWeek, dispWeek>>

\* The end of the confirmation stage with outcome e.
ConfirmationEnds(c, e) ==
    [c EXCEPT !.at = "completion",
              !.confirmation = [outcome |-> e,
                                ret |-> HandleReservationConfirmationPage(e)]]

\* Line 110, up to the selector loop (lines 267-298): the page is recognised,
\* fill_user_count_inputs gives a value to the fields it finds and can fill
\* (form_utils.py lines 13-134: it returns the count, which line 284 drops,
\* and does not raise), then the wait of line 286 returns or raises.
FlowConfirmation ==
    /\ InFlow("confirmation")
    /\ \/ \E e \in {"absent", "raise"} : call' = ConfirmationEnds(call, e)
       \/ \E n \in 1..MaxLines, k \in 0..MaxLines, waitRaises \in BOOLEAN :
            /\ k <= n
            /\ LET c == [call EXCEPT !.lines = n, !.filled = k,
                                     !.log = Append(@, "fill")]
               IN call' = IF waitRaises THEN ConfirmationEnds(c, "raise")
                          ELSE [c EXCEPT !.at = "final"]
    /\ UNCHANGED <<traversalVars, lastWeek, dispWeek>>

\* What one selector of the loop at lines 300-417 comes to.  "skip": no
\* element, not the final control, disabled, or an operation before the click
\* raised.  "clicked_dialog" / "clicked_no_dialog": the click of line 347 and
\* the waits after it returned, the listener having accepted a dialog or not.
\* Otherwise line 347 or a wait after it raised (click_raised: the click did
\* not reach the site; wait_raised: it did) and the control is clicked again
\* inside expect_dialog, line 381 (alt_ok: dialog accepted and waits returned;
\* alt_failed: the second click did not reach the site; alt_wait_failed: it
\* did, and the dialog or a wait after it failed).
FinalSelectorOutcomes ==
    {[first |-> f, alt |-> "none"] : f \in {"skip", "clicked_dialog", "clicked_no_dialog"}}
    \cup {[first |-> f, alt |-> a] :
            f \in {"click_raised", "wait_raised"},
            a \in {"alt_ok", "alt_failed", "alt_wait_failed"}}

\* The clicks of the final control that reached the site under outcome o.
FinalClicks(o) ==
    IF o.first = "skip" THEN <<>>
    ELSE IF o.first \in {"clicked_dialog", "clicked_no_dialog"} THEN <<"final">>
    ELSE (IF o.first = "wait_raised" THEN <<"final">> ELSE <<>>)
         \o (IF o.alt \in {"alt_ok", "alt_wait_failed"} THEN <<"final">> ELSE <<>>)

\* final_reserve_clicked is set and the loop left (lines 369-373, 396-400).
FinalSelectorBreaks(o) ==
    IF o.first \in {"clicked_dialog", "clicked_no_dialog"} THEN TRUE
    ELSE o.alt = "alt_ok"

\* Lines 300-424: one selector of the loop; the stage ends at the first
\* selector that sets final_reserve_clicked, or after the last selector.
FlowFinalSelector ==
    /\ InFlow("final")
    /\ \E o \in FinalSelectorOutcomes :
         LET c == [call EXCEPT !.log = @ \o FinalClicks(o)]
         IN call' =
              IF FinalSelectorBreaks(o)
              THEN ConfirmationEnds(c, IF o.alt = "none" THEN o.first ELSE "alt_accepted")
              ELSE IF call.selector = NumFinalReserveSelectors
              THEN ConfirmationEnds(c, "no_button")
              ELSE [c EXCEPT !.selector = @ + 1]
    /\ UNCHANGED <<traversalVars, lastWeek, dispWeek>>

\* Lines 111-120.
FlowCompletion ==
    /\ InFlow("completion")
    /\ \E e \in CompletionOutcomes :
         LET ret == HandleReservationCompletionPage(e)
         IN call' = [call EXCEPT
                       !.at = "returned",
                       !.completion = [outcome |-> e, ret |-> ret],
                       !.log = IF e = "paid" THEN Append(@, "payment") ELSE @,
                       !.result = IF FlowResult(call.terms.ret, call.confirmation.ret, ret)
                                  THEN "True" ELSE "False"]
    /\ UNCHANGED <<traversalVars, lastWeek, dispWeek>>

\* extract_reservation_number (lines 589-628).  A text is known by the length
\* of its longest run of digits; the page content by whether a run of at least
\* ten digits follows the label.
NumReservationSelectors == 4                  \* lines 600-603
DigitRuns == {0, 9, 10, 12}      \* 0 also for a missing or unreadable element
ContentStates == {"labelled", "unlabelled", "raise"}

\* re.findall(r'\d{10}', text): the non-overlapping runs of ten digits.
FindTenDigits(run) == run \div 10

RECURSIVE ExtractFromSelectors(_, _)
ExtractFromSelectors(texts, i) ==
    IF i > NumReservationSelectors THEN "fallback"
    ELSE IF texts[i] \in DigitRuns /\ FindTenDigits(texts[i]) > 0 THEN "number"
    ELSE ExtractFromSelectors(texts, i + 1)

ExtractReservationNumber(texts, content) ==
    LET r == ExtractFromSelectors(texts, 1)
    IN IF r = "number" THEN "number"
       ELSE IF content = "labelled" THEN "number"   \* lines 619-623
       ELSE "None"                                  \* lines 625, 628

ExtractCalls ==
    {[op |-> "extract_reservation_number", texts |-> t, content |-> c,
      result |-> "pending"] :
        t \in [1..NumReservationSelectors -> DigitRuns], c \in ContentStates}

ExtractReservation ==
    /\ call.op = "extract_reservation_number"
    /\ call.result = "pending"
    /\ call' = [call EXCEPT !.result = ExtractReservationNumber(call.texts, call.content)]
    /\ UNCHANGED <<traversalVars, lastWeek, dispWeek>>

FlowInit ==
    /\ NoTraversal
    /\ lastWeek = max_weeks - 1
    /\ dispWeek = 0
    /\ call \in FlowCalls \cup ExtractCalls

FlowNext ==
    \/ FlowClickReserve
    \/ FlowTerms
    \/ FlowConfirmation
    \/ FlowFinalSelector
    \/ FlowCompletion
    \/ ExtractReservation

SpecFlow == FlowInit /\ [][FlowNext]_vars

\* ------------------------------------- ResultsChecker.check_results_available
\* What a container shows the classifier (results_checker.py): the query finds
\* nothing ("missing"), the element is displayed or not ("visible", "hidden"),
\* the query raises ("raise_query") or reading the computed style raises
\* ("raise_eval").
ContainerStates == {"missing", "hidden", "visible", "raise_query", "raise_eval"}

MaxButtons == 2      \* reservation buttons on the page

\* Lines 59-63, 79-83, 106-110, 123-127: the button fallback.
ButtonFallback(n, buttonsRaise) ==
    IF buttonsRaise
    THEN [has_results |-> FALSE, has_reservation_buttons |-> FALSE, error |-> TRUE]
    ELSE [has_results |-> n > 0, has_reservation_buttons |-> n > 0, error |-> FALSE]

\* Lines 45-90 and 93-134: the list container, then the fallback.
ListThenButtons(list, n, buttonsRaise) ==
    IF list = "missing" THEN ButtonFallback(n, buttonsRaise)
    ELSE IF list = "raise_eval"
    THEN [has_results |-> FALSE, has_reservation_buttons |-> FALSE, error |-> TRUE]
    ELSE IF list = "visible"
    THEN [has_results |-> TRUE, has_reservation_buttons |-> FALSE, error |-> FALSE]
    ELSE ButtonFallback(n, buttonsRaise)

\* Lines 137-146: the buttons of a page with results.
ButtonsOfResults(r, n, buttonsRaise) ==
    IF r.error \/ ~r.has_results \/ r.has_reservation_buttons THEN r
    ELSE IF buttonsRaise
    THEN [has_results |-> FALSE, has_reservation_buttons |-> FALSE, error |-> TRUE]
    ELSE [r EXCEPT !.has_reservation_buttons = n > 0]

\* Lines 23-152: the try block.  bound tells whether both container variables
\* were assigned (lines 29-30) before the handler at line 148 ran.
CheckResultsTry(notfound, list, n, buttonsRaise) ==
    IF notfound = "raise_query" \/ list = "raise_query"
    THEN [has_results |-> FALSE, has_reservation_buttons |-> FALSE, error |-> TRUE,
          bound |-> FALSE]
    ELSE LET r == IF notfound = "raise_eval"
                  THEN [has_results |-> FALSE, has_reservation_buttons |-> FALSE,
                        error |-> TRUE]
                  ELSE IF notfound = "visible"
                  THEN [has_results |-> FALSE, has_reservation_buttons |-> FALSE,
                        error |-> FALSE]
                  ELSE ListThenButtons(list, n, buttonsRaise)
             q == ButtonsOfResults(r, n, buttonsRaise)
         IN [has_results |-> q.has_results,
             has_reservation_buttons |-> q.has_reservation_buttons,
             error |-> q.error, bound |-> TRUE]

\* Lines 154-166: the log of a negative answer reads both container variables
\* (lines 162-163), which raises UnboundLocalError when one was never assigned.
check_results_available(notfound, list, n, buttonsRaise) ==
    LET r == CheckResultsTry(notfound, list, n, buttonsRaise)
    IN [answer |-> IF ~r.has_results /\ ~r.bound THEN "raise"
                   ELSE IF r.has_results THEN "results" ELSE "no results",
        has_reservation_buttons |-> r.has_reservation_buttons,
        error |-> r.error]

ResultsCalls ==
    {[op |-> "check_results_available", notfound |-> nf, list |-> l, buttons |-> n,
      buttonsRaise |-> br, result |-> "pending", has_reservation_buttons |-> FALSE,
      error |-> FALSE] :
        nf \in ContainerStates, l \in ContainerStates, n \in 0..MaxButtons,
        br \in BOOLEAN}

CheckResultsAvailable ==
    /\ call.op = "check_results_available"
    /\ call.result = "pending"
    /\ LET r == check_results_available(call.notfound, call.list, call.buttons,
                                        call.buttonsRaise)
       IN call' = [call EXCEPT !.result = r.answer,
                               !.has_reservation_buttons = r.has_reservation_buttons,
                               !.error = r.error]
    /\ UNCHANGED <<traversalVars, lastWeek, dispWeek>>

ResultsInit ==
    /\ NoTraversal
    /\ lastWeek = max_weeks - 1
    /\ dispWeek = 0
    /\ call \in ResultsCalls

ResultsNext == CheckResultsAvailable

SpecResults == ResultsInit /\ [][ResultsNext]_vars

\* ------------------------------------- the click block, method by method
\* slot_extractor.py lines 257-400 for one eligible cell whose icon is present:
\* the frame holds the block's locals (st), the methods issued so far (tried:
\* 1 the regular click, 2 the JavaScript click, 3 the onclick evaluation) and
\* what the verifier answered after each (verdicts; False when the call
\* raised before the verifier was asked) and what each call did (outcomes).
NumClickMethods == 3

ClickBlockStart ==
    [op |-> "click_block", at |-> 1,
     st |-> [sel |-> FALSE, attempted |-> FALSE, success |-> FALSE,
             issued |-> 0, onSelected |-> FALSE],
     tried |-> <<>>, verdicts |-> <<>>, outcomes |-> <<>>, result |-> "pending"]

\* Lines 281-300 (k = 1), 302-322 (k = 2), 324-345 (k = 3).
TryMethod(k) ==
    /\ call.op = "click_block"
    /\ call.at = k
    /\ \E o \in ClickOutcomes, v \in BOOLEAN :
         /\ ~Returned(o) => ~v
         /\ LET s == ClickMethod(call.st, o, v)
                ran == s.issued > call.st.issued
            IN call' = [call EXCEPT
                          !.at = k + 1,
                          !.st = s,
                          !.tried = IF ran THEN Append(@, k) ELSE @,
                          !.verdicts = IF ran THEN Append(@, v) ELSE @,
                          !.outcomes = IF ran THEN Append(@, o) ELSE @]
    /\ UNCHANGED <<traversalVars, lastWeek, dispWeek>>

RegularClick == TryMethod(1)
JavaScriptClick == TryMethod(2)
DirectOnclick == TryMethod(3)

\* Lines 358-400: the icon check and the verdict of the block.
FinishClickBlock ==
    /\ call.op = "click_block"
    /\ call.at = NumClickMethods + 1
    /\ \E svgOk \in BOOLEAN :
         LET svg_verification == svgOk /\ call.st.sel
             final_selection_success == svg_verification \/ call.st.success
         IN call' = [call EXCEPT
                       !.at = NumClickMethods + 2,
                       !.result = IF final_selection_success THEN "verified"
                                  ELSE IF call.st.attempted THEN "unverified"
                                  ELSE "failed"]
    /\ UNCHANGED <<traversalVars, lastWeek, dispWeek>>

EscalationInit ==
    /\ NoTraversal
    /\ lastWeek = max_weeks - 1
    /\ dispWeek = 0
    /\ call = ClickBlockStart

EscalationNext ==
    \/ RegularClick
    \/ JavaScriptClick
    \/ DirectOnclick
    \/ FinishClickBlock

SpecEscalation == EscalationInit /\ [][EscalationNext]_vars

\* ------------------------------------ MonitoringService.detect_new_availability
MaxScans == 3        \* scans of one monitoring service

\* The slots a scan can find: two dates, two start times, one venue and
\* facility.
ScanSlots ==
    {[use_ymd |-> d, bcd |-> "1020", icd |-> "10200020",
      start_time |-> t, end_time |-> t + 200] :
        d \in {20260101, 20260102}, t \in {900, 1100}}

\* monitoring_service.py lines 25-27.
_slot_key(slot) ==
    <<slot.use_ymd, slot.bcd, slot.icd, slot.start_time, slot.end_time>>

\* scan_availability, lines 843-946: current_keys holds the key of every slot
\* found (lines 878-883), stored the slots _store_availability could store
\* (lines 916, 978-1040); the keys are saved at line 945, before the return.
scan_availability(found, stored) ==
    [previous_slot_keys |-> {_slot_key(sl) : sl \in found}, ret |-> stored]

\* detect_new_availability, lines 952-977, on a service whose saved keys are
\* the set previous.
detect_new_availability(previous, found, stored) ==
    LET scan == scan_availability(found, stored)
        current_slots == scan.ret
        current_keys == {_slot_key(sl) : sl \in current_slots}
        new_keys == current_keys \ scan.previous_slot_keys
    IN [previous_slot_keys |-> scan.previous_slot_keys,
        current_slots |-> current_slots,
        new_slots |-> {sl \in current_slots : _slot_key(sl) \in new_keys}]

\* The service: its saved keys (line 22: empty at construction), the number of
\* scans made, and for the last call the keys saved before it, the slots of
\* its scan and the slots it reported as new.
NewMonitor ==
    [op |-> "detect_new_availability", previous_slot_keys |-> {}, scans |-> 0,
     before |-> {}, current_slots |-> {}, new_slots |-> {}]

DetectNewAvailability ==
    /\ call.op = "detect_new_availability"
    /\ call.scans < MaxScans
    /\ \E found \in SUBSET ScanSlots, failed \in SUBSET ScanSlots :
         /\ Cardinality(failed) <= 1
         /\ failed \subseteq found
         /\ LET r == detect_new_availability(call.previous_slot_keys, found,
                                             found \ failed)
            IN call' = [call EXCEPT !.previous_slot_keys = r.previous_slot_keys,
                                    !.scans = @ + 1,
                                    !.before = call.previous_slot_keys,
                                    !.current_slots = r.current_slots,
                                    !.new_slots = r.new_slots]
    /\ UNCHANGED <<traversalVars, lastWeek, dispWeek>>

MonitorInit ==
    /\ NoTraversal
    /\ lastWeek = max_weeks - 1
    /\ dispWeek = 0
    /\ call = NewMonitor

MonitorNext == DetectNewAvailability

SpecMonitor == MonitorInit /\ [][MonitorNext]_vars

\* ------------------------------------------------------------- properties
\* C1: in Phase 1, a visited cell whose "still available" icon is absent (it is
\* already selected) receives no click call of any kind, and stays selected.
NoToggleInPhase1 ==
    (ev.kind = "cell" /\ ev.phase = 1 /\ ev.iconAbsent)
        => (ev.issued = 0 /\ selected[ev.cell])

\* A Phase 1 visit of an already selected cell, in a run that clicked another cell.
AlreadySelectedCellVisited ==
    /\ ev.kind = "cell" /\ ev.phase = 1 /\ ev.iconAbsent
    /\ ev.out = "already_selected"
    /\ hist.clickIssued

\* The Phase 2 visit of a cell whose id Phase 1 recorded and whose icon is back.
RepairVisit ==
    /\ ev.kind = "cell" /\ ev.phase = 2
    /\ ev.prev /\ ~ev.iconAbsent /\ ev.out # "cell_error"

FlagIffClicked ==
    pc = "done" => /\ (slots_clicked_flag = 1 <=> hist.clicked)
                   /\ (~hist.clickIssued => slots_clicked_flag = 0)

\* C4: the booking entry point never clicks the reservation control when the
\* flag is not 1, whatever the slot list, and goes on to the control (clicking
\* it when it is there and enabled) when the flag is 1, whatever the slot list.
BookingGatedOnFlagOnly ==
    (ev.kind = "book" /\ ev.called)
        => /\ (ev.flag # 1 => ~ev.looked /\ ~ev.clicked)
           /\ (ev.flag = 1 => ev.looked /\ (ev.clicked <=> ev.button = "enabled"))

\* The control clicked on a flag of 1 and an empty slot list.
BookedOnEmptySlotList ==
    ev.kind = "book" /\ ev.called /\ ev.flag = 1 /\ ev.nslots = 0 /\ ev.clicked

\* The facility's only available cell is c, a bookable cell of week 3.
OnlyAvailableCell(c) ==
    /\ cal[c].week = 2 /\ cal[c].kind = "slot"
    /\ \A d \in Cells \ {c} : cal[d].kind = "unavailable"

WeekFailureIsolated ==
    (ev.kind = "week" /\ ~ev.ok) => pc # "done"

PhaseVisits(ph) == SelectSeq(visits, LAMBDA v : v.phase = ph)
WeeksOf(vs) == [i \in DOMAIN vs |-> vs[i].week]

TimeoutLogsInOnceAndRetries ==
    (pc = "done" /\ hist.timeoutSeen)
        => (hist.loginCalls = 1 /\ page = "calendar")

NoAvailableCell == \A c \in Cells : cal[c].kind = "unavailable"

\* C9: a facility without any available cell: no cell click is ever issued,
\* and the traversal returns an empty Slot list and a flag of 0.
NoAvailableCellNoClick ==
    NoAvailableCell
        => /\ ~hist.clickIssued
           /\ (pc = "done" => slots = <<>> /\ slots_clicked_flag = 0)

\* Such a facility after all six weeks were extracted in both passes.
EmptyFacilityTraversed ==
    /\ NoAvailableCell /\ pc = "done" /\ Len(visits) = 2 * max_weeks
    /\ slots = <<>> /\ slots_clicked_flag = 0

\* C10: a cell for which slot_exists_checker answers true receives no click
\* call during that visit, in Phase 1 or Phase 2.
KnownCellNeverClicked ==
    (ev.kind = "cell" /\ ev.checker = "true") => ev.issued = 0


\* ------------------------------------------------- the calendar navigator
\* A cell of the table whose id has a date component equal to the current date.
ShowsToday(cell) ==
    /\ cell.read = "ok"
    /\ Len(cell.parts) >= 2
    /\ cell.parts[1].digits
    /\ cell.parts[1].value = today_int

IsOnWeekOneDone == call.op = "is_on_week_one" /\ call.result # "pending"

\* C11: is_on_week_one never raises; it returns false when the week table is
\* absent or has no id-bearing cell; otherwise it returns true if and only if
\* some displayed cell id has a date component equal to the current date.
WeekOneIffTodayDisplayed ==
    IsOnWeekOneDone =>
        /\ call.result \in {"True", "False"}
        /\ (~call.table.visible \/ call.table.cells = <<>>) => call.result = "False"
        /\ (call.table.visible /\ ~call.table.queryRaises) =>
              (call.result = "True" <=>
                 \E i \in DOMAIN call.table.cells : ShowsToday(call.table.cells[i]))

\* C11 witness: true is returned for a table whose first cell has an id that
\* cannot be read as a date and whose second cell carries today's date.
TodayFoundAfterUnreadableCell ==
    /\ IsOnWeekOneDone
    /\ call.result = "True"
    /\ Len(call.table.cells) = 2
    /\ call.table.cells[1].read = "ok"
    /\ Len(call.table.cells[1].parts) = 2
    /\ ~call.table.cells[1].parts[1].digits
    /\ ShowsToday(call.table.cells[2])

BackToWeekOneDone == call.op = "navigate_back_to_week_one" /\ call.result # "pending"

BackClicksBoundedAndChecked ==
    call.op = "navigate_back_to_week_one" =>
        /\ call.obs.clicks <= 6
        /\ ~call.obs.clickAfterTrue
        /\ ~call.obs.clickUnchecked
        /\ call.result # "pending" => ~call.obs.unchecked

\* C13 witness: a call that issued all 6 clicks and then returned.
SixBackClicks ==
    /\ BackToWeekOneDone
    /\ call.obs.clicks = 6

\* C14 as stated: a call to navigate_to_next_week or navigate_to_previous_week
\* clicks the week control at most once.
AtMostOneWeekClick ==
    call.op \in {"navigate_to_next_week", "navigate_to_previous_week"} =>
        call.clicks <= 1


\* ---------------------------------------------------------------- the login
IsLoggedInDone == call.op = "is_logged_in" /\ call.result # "pending"

\* C15: is_logged_in returns false whenever the page content contains a
\* login-form field marker, whatever the other signals are.
LoginFormMarkerWins ==
    (IsLoggedInDone /\ call.page.read = "ok" /\ call.page.has_login_form) =>
        call.result = "False"

\* C15 witness: false is returned for a page that has the login-form marker
\* together with every positive signal and nothing else that would refuse it.
LoginFormAgainstAllPositives ==
    /\ IsLoggedInDone
    /\ call.result = "False"
    /\ call.page.read = "ok"
    /\ call.page.has_login_form
    /\ call.page.has_logout /\ call.page.has_user_info
    /\ call.page.url_matches /\ call.page.is_home_screen
    /\ ~call.page.timeout_msg /\ ~call.page.error_title /\ ~is_login_page(call.page)

\* C16: is_logged_in fails closed: it never propagates an exception, and it
\* returns False when the page is closed or a read of the title or the content
\* raises.
LoginCheckFailsClosed ==
    IsLoggedInDone =>
        /\ call.result \in {"True", "False"}
        /\ call.page.read # "ok" => call.result = "False"

\* C16 witness: False returned for a page whose content() raises.
ContentReadRaised ==
    /\ IsLoggedInDone
    /\ call.page.read = "contentRaises"
    /\ call.result = "False"

\* C17 as stated: the first attempt of ensure_logged_in_with_retry calls
\* login() exactly when is_logged_in is false on the given page.
LoginExactlyWhenCheckFalse ==
    (call.op = "ensure_logged_in_with_retry" /\ call.attempt = 1) =>
        (call.loginCalls = 1 <=> is_logged_in(call.given) = "False")

\* The retry policy at every moment of a call: without a cap no false result;
\* with a cap of N at most N login() calls, a false result only when the N-th
\* attempt has failed, and no further attempt after that failure.
RetryPolicyHolds ==
    call.op = "ensure_logged_in_with_retry" =>
        /\ call.max_retries = 0 => call.result # "False"
        /\ call.max_retries > 0 => call.loginCalls <= call.max_retries
        /\ call.result = "False" =>
              /\ call.max_retries > 0
              /\ call.attempt = call.max_retries
              /\ call.loginCalls = call.max_retries
        /\ (call.max_retries > 0 /\ call.attempt >= call.max_retries) =>
              call.result # "pending"
        /\ call.result = "True" => call.failsLeft = 0 \/ SeemsLoggedIn(call.page)

\* C18: ensure_logged_in_with_retry follows its retry policy, and a call
\* without a cap returns true once the site stops refusing the login: it
\* retries after every failed login() and returns at the first success.
RetryPolicy ==
    /\ [] RetryPolicyHolds
    /\ (call.op = "ensure_logged_in_with_retry" /\ call.max_retries = 0)
          ~> (call.result = "True")
    /\ (call.op = "ensure_logged_in_with_retry") ~> (call.result # "pending")

\* C18 witness: a call without a cap that returned true after three failed
\* login() calls.
UncappedSucceedsAfterFailures ==
    /\ call.op = "ensure_logged_in_with_retry"
    /\ call.max_retries = 0
    /\ call.result = "True"
    /\ call.loginCalls >= 4

ProbesMade(probes) ==
    {i \in 1..NumProbes :
        \A j \in 1..(i - 1) : ~(j \in DecidingProbes /\ probes[j] = "positive")}

\* C20: verify_cell_selection never raises, and returns false if any probe it
\* makes of the page or the cell fails.
VerifierNeverRaises ==
    (call.op = "verify_cell_selection" /\ call.result # "pending") =>
        /\ call.result \in {"True", "False"}
        /\ (\E i \in ProbesMade(call.probes) : call.probes[i] = "raise") =>
              call.result = "False"

\* C20 witness: the computed-style probe raises while a later probe would have
\* been positive, and false is returned.
StyleProbeRaised ==
    /\ call.op = "verify_cell_selection"
    /\ call.result = "False"
    /\ call.probes[4] = "raise"
    /\ call.probes[5] = "positive"


\* The five signals of the contract, as facts of the page the probes report:
\* a marker attribute or class on the cell, the "available" icon gone, an
\* ancestor or sibling with a marker, the cell in a script-held registry, a
\* hidden field encoding the cell id.
ListedSignalPositive ==
    \/ call.probes[2] = "positive" \/ call.probes[3] = "positive"
    \/ call.icon_absent
    \/ call.probes[5] = "positive" \/ call.probes[6] = "positive"
    \/ call.probes[7] = "positive"
    \/ call.probes[8] = "positive"

\* C21 as stated: when no probe fails, verify_cell_selection returns true if
\* and only if at least one of the five listed signals is positive.
TrueIffListedSignal ==
    (/\ call.op = "verify_cell_selection"
     /\ call.result # "pending"
     /\ \A i \in 1..NumProbes : call.probes[i] # "raise") =>
        (call.result = "True" <=> ListedSignalPositive)


\* ------------------------------------------------------- the browser session
\* The resources a session holds a reference to.
HeldKinds(s) ==
    {k \in {"context", "browser", "playwright"} : s[k] # NoRef}
        \cup (IF s.main_page # NoRef THEN {"page"} ELSE {})

SessionDid(o) == call.op = "BrowserSession" /\ call.last.op = o

\* C22 as stated: stop() attempts to close every resource the session holds,
\* whether or not an earlier close failed, and the main-page reference is
\* cleared when it returns.
StopBestEffort ==
    SessionDid("stop") =>
        /\ call.last.attempted = HeldKinds(call.last.before)
        /\ call.s.main_page = NoRef

\* C23 as stated: when start() finds a disconnected browser and launches a
\* new one, nothing of the old session is left unreleased and the page
\* reference has been cleared.
StartTearsDownFirst ==
    (SessionDid("start") /\ call.last.found = "disconnected"
        /\ call.s.launches > call.last.before.launches) =>
        /\ \A r \in call.s.live : r[2] = call.s.launches
        /\ call.s.main_page = NoRef

\* C24: start() called while the held browser is connected launches nothing
\* and leaves the browser, context, driver and main-page references as they
\* were, however often it is repeated.
StartIdempotentWhileConnected ==
    (SessionDid("start") /\ call.last.found = "connected") =>
        /\ call.s = call.last.before
        /\ ~call.last.raised

\* C24 witness: start() was called repeatedly on a connected session that
\* holds a main page.
StartRepeatedOnLiveSession ==
    /\ SessionDid("start")
    /\ call.last.found = "connected"
    /\ call.last.repeats = 2
    /\ call.s.main_page # NoRef


\* ---------------------------------------------------- slots of a traversal
\* The cell's click handler is a setReserv call whose arguments give a venue
\* id, a facility id, a start and an end time.
RecognizedEncoding(c) ==
    /\ OnClick(c).fn = "setReserv"
    /\ Len(OnClick(c).args) >= 7

\* The slot carries what its cell's handler encodes.
FromEncoding(sl) ==
    /\ RecognizedEncoding(sl.cell_id)
    /\ sl.bcd = OnClick(sl.cell_id).args[2]
    /\ sl.icd = OnClick(sl.cell_id).args[3]
    /\ sl.start_time = OnClick(sl.cell_id).args[5]
    /\ sl.end_time = OnClick(sl.cell_id).args[6]

LastCellVisit == ev.kind = "cell"

\* The visit just made appended a Slot of its cell.
SlotEmitted == week_slots # <<>> /\ week_slots[Len(week_slots)].cell_id = ev.cell

\* C25: every Slot a traversal gathers comes from a cell whose click handler
\* carried a recognized setReserv encoding; an available cell without that
\* encoding yields no Slot and is never clicked.
SlotsComeFromEncodedCells ==
    /\ \A i \in DOMAIN slots : FromEncoding(slots[i])
    /\ \A i \in DOMAIN week_slots : FromEncoding(week_slots[i])
    /\ (LastCellVisit /\ ~RecognizedEncoding(ev.cell)) =>
          /\ ev.issued = 0
          /\ ~ev.recorded
          /\ ~SlotEmitted

\* C25 witness: a traversal that holds a Slot has just passed, in Phase 2, over
\* an available cell whose setReserv call cannot be decoded.
UndecodableCellPassedOver ==
    /\ LastCellVisit
    /\ OnClick(ev.cell).fn = "setReserv"
    /\ ~RecognizedEncoding(ev.cell)
    /\ ev.phase = 2
    /\ slots # <<>>

\* C26 as stated: in Phase 1 every visit of an available cell with valid
\* encoded parameters emits a Slot, whatever the cell's selection state and
\* the outcome of the click (a cell whose read fails or which the persistence
\* layer knows is left aside).
Phase1EmitsEveryEncodedCell ==
    (LastCellVisit /\ ev.phase = 1 /\ RecognizedEncoding(ev.cell)
        /\ ev.out \notin {"cell_error", "known"}) =>
        SlotEmitted

\* C27 as stated: between the week extractions of one facility the driver
\* makes no login check and no re-login.
NoLoginCheckMidTraversal ==
    (ev.kind = "nav" /\ pc # "done") =>
        /\ ~browser_automation
        /\ ev.logins = 0


\* ------------------------------------------------------- the entry points
\* C28: no failure of a page operation leaves the traversal or the search as
\* an exception: the traversal ends with the slots gathered before the
\* failure, and a failed search returns success False, an empty slot list and
\* flag 0.
EntryPointsNeverRaise ==
    /\ [](pc \in {"start", "week", "cell", "ret", "done", "returned"})
    /\ [][pc' = "done" => (slots' = slots \/ slots' = slots \o week_slots)]_vars
    /\ []((pc = "returned") =>
            /\ ev.ret.success \in BOOLEAN
            /\ ~ev.ret.success => (ev.ret.slots = <<>> /\ ev.ret.slots_clicked_flag = 0)
            /\ (ev.ret.success /\ ev.kind = "book") =>
                  (ev.ret.slots = slots /\ ev.ret.slots_clicked_flag = slots_clicked_flag))

\* C28 witness: a traversal that a missing week table ended after it had
\* gathered slots and set the flag; the search went on with them and returned.
SearchReturnedAfterFailedTraversal ==
    /\ pc = "returned"
    /\ visits # <<>>
    /\ ~visits[Len(visits)].ok
    /\ slots # <<>>
    /\ slots_clicked_flag = 1
    /\ ev.ret = SearchCompleted(slots, 1)


\* ------------------------------------------------------- the booking flow
FinalConfirmAccepted ==
    call.confirmation.outcome \in {"clicked_dialog", "alt_accepted"}

TenDigitsOnPage ==
    \/ \E i \in 1..NumReservationSelectors : call.texts[i] >= 10
    \/ call.content = "labelled"

\* C29: the flow returns True only when the final confirm control was clicked
\* and its dialog accepted and no stage failed, and an identifier is returned
\* only when ten digits in a row are found on the page.
SuccessOnlyWhenConfirmed ==
    /\ (InFlow("returned") /\ call.result = "True") =>
          /\ FinalConfirmAccepted
          /\ call.terms.ret
          /\ call.confirmation.ret
          /\ call.completion.ret
    /\ (call.op = "extract_reservation_number" /\ call.result = "number") =>
          TenDigitsOnPage


\* ------------------------------------------------------ the result classifier
Classified == call.op = "check_results_available" /\ call.result # "pending"

\* The classification of a page none of whose operations raised.
ClassifiedWithoutError ==
    Classified /\ ~call.error =>
        IF call.notfound = "visible" THEN call.result = "no results"
        ELSE IF call.list = "visible" THEN call.result = "results"
        ELSE (call.result = "results") <=> (call.buttons > 0)

\* C30: a visible no-results container gives "no results"; otherwise a visible
\* list container gives "results exist"; otherwise the answer is "results
\* exist" exactly when a reservation button is present; and on any error the
\* answer is "no results".
ClassifierAsDescribed ==
    /\ ClassifiedWithoutError
    /\ Classified /\ call.error => call.result = "no results"


\* --------------------------------------------------- the click escalation
\* The number of methods preceding the first one the verifier confirmed, or
\* the number of verdicts when none was confirmed.
RECURSIVE UnconfirmedPrefix(_, _)
UnconfirmedPrefix(vs, i) ==
    IF i > Len(vs) \/ vs[i] THEN i - 1 ELSE UnconfirmedPrefix(vs, i + 1)

\* C31: the click block issues the regular click, the JavaScript click and the
\* onclick evaluation in that order, issues a method exactly when the verifier
\* confirmed none of the earlier ones, and issues none after the first method
\* the verifier confirmed.
EscalationInOrder ==
    call.op = "click_block" =>
        /\ \A i \in DOMAIN call.tried : call.tried[i] = i
        /\ Len(call.verdicts) = Len(call.tried)
        /\ \A i \in DOMAIN call.tried : \A j \in 1..(i - 1) : ~call.verdicts[j]
        /\ LET reached == IF call.at > NumClickMethods THEN NumClickMethods
                          ELSE call.at - 1
               u == UnconfirmedPrefix(call.verdicts, 1)
           IN Len(call.tried) = IF u < Len(call.verdicts) THEN u + 1 ELSE reached

\* C31 witness: the verifier refused the first two methods and confirmed the
\* third.
ThirdMethodConfirmed ==
    /\ call.op = "click_block"
    /\ call.result # "pending"
    /\ call.tried = <<1, 2, 3>>
    /\ call.verdicts = <<FALSE, FALSE, TRUE>>


\* ------------------------------------------------------ clicks of Phase 2
Phase2CellVisit == ev.kind = "cell" /\ ev.phase = 2

\* C32: a Phase 2 visit issues a click only on a cell whose id Phase 1 recorded
\* and whose icon is present at the visit; every other cell is left as it is
\* (no click call, selection unchanged), and no visit of Phase 2 runs the
\* escalation: at most the one restoring click is issued.
Phase2ClicksOnlyRecordedUnselected ==
    Phase2CellVisit =>
        /\ ev.issued > 0 => (ev.prev /\ ~ev.iconAbsent)
        /\ ~(ev.prev /\ ~ev.iconAbsent) =>
              (ev.issued = 0 /\ selected[ev.cell] = ev.iconAbsent)
        /\ ev.issued <= 1
        /\ ev.out \notin {"verified", "unverified", "failed", "error"}

\* C32 witness: Phase 2 re-extracts a bookable cell that Phase 1 never recorded
\* and whose icon is present, without clicking it, in a traversal that clicked
\* another cell.
UnrecordedCellOnlyReExtracted ==
    /\ Phase2CellVisit
    /\ ~ev.prev /\ ~ev.iconAbsent
    /\ ev.out = "extract_only" /\ ev.issued = 0
    /\ week_slots # <<>>
    /\ week_slots[Len(week_slots)].cell_id = ev.cell
    /\ all_clicked_slot_ids # <<>>


\* ------------------------------------------------ the order of the booking flow
StageRank(x) ==
    CASE x = "primary" -> 1
      [] x = "terms" -> 2
      [] x = "fill" -> 3
      [] x = "final" -> 4
      [] x = "payment" -> 5

InBookingFlow == call.op = "click_reservation_button_if_slots_found"

\* The events of the flow happen in stage order, nothing happens without a
\* click of the primary control, and the fill of the headcount fields has run
\* before any click of the final confirm control.
StagesInOrder ==
    /\ \A i, j \in DOMAIN call.log :
          i < j => StageRank(call.log[i]) <= StageRank(call.log[j])
    /\ call.log # <<>> => call.log[1] = "primary"
    /\ call.at \notin {"entry", "returned"} => call.log # <<>>
    /\ \A j \in DOMAIN call.log :
          call.log[j] = "final" => \E i \in 1..(j - 1) : call.log[i] = "fill"

FinalConfirmClicked == \E j \in DOMAIN call.log : call.log[j] = "final"

\* C33 as stated: the stages run in the order primary control, terms of use,
\* headcount, final confirm, payment deferral; the final confirm control is
\* clicked only when the headcount fields of the page have been filled; no
\* stage runs unless the primary control was clicked.
FinalConfirmAfterHeadcountFilled ==
    InBookingFlow =>
        /\ StagesInOrder
        /\ FinalConfirmClicked => call.filled = call.lines

\* C33 amended: the stages run in that order and only after a click of the
\* primary control, and the headcount fill has run before any click of the
\* final confirm control; the fill is best-effort, so the final confirm
\* control is clicked with between none and all of the fields filled.
FinalConfirmAfterFillAttempt ==
    InBookingFlow =>
        /\ StagesInOrder
        /\ FinalConfirmClicked => (call.lines >= 1 /\ call.filled \in 0..call.lines)

\* C33 witness: a flow that went through every stage and clicked the final
\* confirm control with a headcount field left empty.
FinalConfirmWithEmptyHeadcount ==
    /\ InBookingFlow
    /\ call.at = "returned"
    /\ call.log = <<"primary", "terms", "fill", "final", "payment">>
    /\ call.filled < call.lines


\* C37: one booking flow clicks the final confirm control at most once, also
\* when a wait after the first click fails and the fallback strategy runs.
FinalConfirmClickedAtMostOnce ==
    InBookingFlow =>
        Len(SelectSeq(call.log, LAMBDA x : x = "final")) <= 1


\* ------------------------------------------------------- new availability
\* C34: detect_new_availability returns exactly the slots of its scan whose
\* key was not among the keys saved by the previous scan; on the first scan
\* every slot found is new.
NewSlotsAreThoseUnseenBefore ==
    (call.op = "detect_new_availability" /\ call.scans > 0) =>
        call.new_slots = {sl \in call.current_slots : _slot_key(sl) \notin call.before}


\* C35: while one cell is processed in Phase 1, no click method is issued on
\* it when an earlier method has already selected it (icon removed): the
\* escalation never toggles the cell back.
NoMethodOnSelectedCell ==
    call.op = "click_block" =>
        /\ ~call.st.onSelected
        /\ (\E i \in DOMAIN call.outcomes : Toggles(call.outcomes[i])) => call.st.sel


\* ------------------------------------- who holds the main page after a login
\* Pages are numbered in the order context.new_page() creates them; NoPage is
\* None.  BrowserAutomation keeps two references: session.main_page and the
\* dict _main_page_ref that it hands to its LoginHandler.
MaxLogins == 4
NoPage == 0

\* What one call of LoginHandler.login() can meet: new_page() raises, a step
\* of the try block raises, or the login is verified.
LoginRuns == {"noPage", "fails", "ok"}

\* LoginHandler.login(): a verified login stores the new page in
\* main_page_ref['main_page'] (line 62); a failed one closes it (lines 73-74).
\* latest remembers the page of the most recent successful login.
LoginHandlerLogin(f, run) ==
    IF run = "noPage" THEN [f EXCEPT !.raised = TRUE]
    ELSE IF run = "fails" THEN [f EXCEPT !.opened = @ + 1, !.raised = TRUE]
    ELSE [f EXCEPT !.opened = @ + 1, !.main_page_ref = f.opened + 1,
                   !.latest = f.opened + 1, !.raised = FALSE]

\* BrowserAutomation.login(): the handler's login, then line 69 copies the
\* reference into the session; an exception of the handler skips the copy.
AutomationLogin ==
    /\ call.op = "owner"
    /\ call.pc = "idle"
    /\ call.opened < MaxLogins
    /\ \E run \in LoginRuns :
         LET f == LoginHandlerLogin(call, run) IN
         call' = [f EXCEPT !.session_main_page = IF f.raised THEN @ ELSE f.main_page_ref,
                           !.last = "login",
                           !.result = IF f.raised THEN "raise" ELSE "cookies"]
    /\ UNCHANGED <<traversalVars, siteVars, dispWeek>>

\* SessionRecovery.recover_from_session_timeout(page, login_handler), lines
\* 140-165: when neither the Home button nor the goto works it returns False;
\* otherwise it enters ensure_logged_in_with_retry with the same handler.
RecoverFromSessionTimeout ==
    /\ call.op = "owner"
    /\ call.pc = "idle"
    /\ \E homeReached \in BOOLEAN :
         call' = IF homeReached
                 THEN [call EXCEPT !.pc = "ensuring", !.last = "recover",
                                   !.result = "pending", !.raised = FALSE]
                 ELSE [call EXCEPT !.last = "recover", !.result = "False",
                                   !.raised = FALSE]
    /\ UNCHANGED <<traversalVars, siteVars, dispWeek>>

\* A caller enters SessionRecovery.ensure_logged_in_with_retry directly.
EnsureLoggedInStart ==
    /\ call.op = "owner"
    /\ call.pc = "idle"
    /\ call' = [call EXCEPT !.pc = "ensuring", !.last = "ensure",
                            !.result = "pending", !.raised = FALSE]
    /\ UNCHANGED <<traversalVars, siteVars, dispWeek>>

\* Lines 194-238, one pass of the loop as far as the references go: the page
\* already shows a logout control and the call returns True, or line 215
\* calls login_handler.login() and the call returns True when it succeeds and
\* goes round again when it raises.  Nothing here touches the session.
EnsureLoggedInPass ==
    /\ call.op = "owner"
    /\ call.pc = "ensuring"
    /\ \/ call' = [call EXCEPT !.pc = "idle", !.result = "True"]
       \/ /\ call.opened < MaxLogins
          /\ \E run \in LoginRuns :
               LET f == LoginHandlerLogin(call, run) IN
               call' = IF f.raised THEN f
                       ELSE [f EXCEPT !.pc = "idle", !.result = "True"]
    /\ UNCHANGED <<traversalVars, siteVars, dispWeek>>

OwnerInit ==
    /\ NoTraversal
    /\ lastWeek = max_weeks - 1
    /\ dispWeek = 0
    /\ call = [op |-> "owner", pc |-> "idle", session_main_page |-> NoPage,
               main_page_ref |-> NoPage, latest |-> NoPage, opened |-> 0,
               last |-> "none", result |-> "none", raised |-> FALSE]

OwnerNext ==
    \/ AutomationLogin
    \/ RecoverFromSessionTimeout
    \/ EnsureLoggedInStart
    \/ EnsureLoggedInPass

SpecOwner == OwnerInit /\ [][OwnerNext]_vars

\* C38: between calls, session.main_page is the page of the most recent
\* successful login, whether that login was made by BrowserAutomation.login
\* or inside a session recovery.
SessionHoldsLatestLoginPage ==
    (call.op = "owner" /\ call.pc = "idle") =>
        call.session_main_page = call.latest

CalendarShown == StartTraversal /\ ev'.ok

\* Every week table loads.
WeekLoads == ExtractWeekBegin /\ ev'.ok

\* Every click call a visit issues toggles the clicked cell.
ProcessCellToggling == ProcessCell /\ ev'.toggledAll

\* The site drops no selection while Phase 2 navigates.
Phase2AdvanceKeeping == Phase2Advance /\ selected' = selected

RepairNext ==
    \/ CalendarShown
    \/ WeekLoads
    \/ ProcessCellToggling
    \/ Phase1Advance
    \/ Phase2AdvanceKeeping

SpecRepair == Init /\ [][RepairNext]_vars

\* The recorded cells whose week Phase 2 extracted again.
RevisitedRecorded ==
    {c \in SeqToSet(all_clicked_slot_ids) :
        \E i \in DOMAIN visits : visits[i].phase = 2 /\ visits[i].week = cal[c].week}

TerminatingInit ==
    /\ Init
    /\ \A c \in Cells : cal[c].kind # "slot"

SpecTerminating == TerminatingInit /\ [][Next]_vars /\ WF_vars(Next)

\* C40: a traversal terminates and is bounded: each phase extracts at most 6
\* weeks and navigates at most 5 times, no Phase 1 extraction follows a Phase 2
\* extraction, and when navigate_to_next_week returns false Phase 1 ends at
\* once and the traversal goes on, without error, to the first extraction of
\* Phase 2.
TraversalTerminatesBounded ==
    /\ [](/\ Len(PhaseVisits(1)) <= 6
          /\ Len(PhaseVisits(2)) <= 6
          /\ hist.navigations[1] <= 5
          /\ hist.navigations[2] <= 5
          /\ (phase = 1 => PhaseVisits(2) = <<>>)
          /\ \A i, j \in DOMAIN visits : i < j => visits[i].phase <= visits[j].phase)
    /\ [][(ev'.kind = "nav" /\ ev'.phase = 1 /\ ~ev'.success)
             => (/\ phase = 1 /\ phase' = 2 /\ pc' = "week"
                 /\ visits' = visits
                 /\ hist'.navigations[1] = Len(PhaseVisits(1)))]_vars
    /\ <>(pc = "done")

\* C40 witness: navigate_to_next_week returned false before the sixth week,
\* Phase 2 then extracted every week back to the first one, and the call
\* returned.
EarlyEndThenFullWayBack ==
    /\ pc = "done"
    /\ ev.kind = "nav" /\ ev.phase = 2 /\ ~ev.success
    /\ dispWeek = 0
    /\ Len(PhaseVisits(1)) < 6
    /\ hist.navigations[1] = Len(PhaseVisits(1))
    /\ Len(PhaseVisits(2)) = Len(PhaseVisits(1))
    /\ hist.navigations[2] = Len(PhaseVisits(2))

====
